---- MODULE Spec2Model ----
(***************************************************************************)
(* NOMADSExplorer: the lazy catalog (explore/catalog.py) with its local    *)
(* backend (explore/local.py, common.py) and the eager directory tree      *)
(* (explore/directory.py) that the remote discovery (explore/web.py) fills.*)
(*                                                                         *)
(* Python values are modelled as follows.                                  *)
(*   str        a sequence of one-character strings                        *)
(*   None       NoneInt (-1) for an optional integer, <<>> for an optional *)
(*              object (a present object v is <<v>>)                       *)
(*   dict       a sequence of [k, v] entries in insertion order, keys      *)
(*              unique                                                     *)
(*   exception  the field err of a method's outcome ("" when it returned)  *)
(***************************************************************************)
EXTENDS Integers, Sequences, FiniteSets, TLC

(***************************************************************************)
(* Strings                                                                 *)
(***************************************************************************)
Digits == <<"0", "1", "2", "3", "4", "5", "6", "7", "8", "9">>

IsDigit(c) == \E i \in 1..Len(Digits) : Digits[i] = c

DigitVal(c) == (CHOOSE i \in 1..Len(Digits) : Digits[i] = c) - 1

\* int(s) for a string of decimal digits
RECURSIVE IntOfDigits(_)
IntOfDigits(s) ==
    IF s = <<>> THEN 0
    ELSE 10 * IntOfDigits(SubSeq(s, 1, Len(s) - 1)) + DigitVal(s[Len(s)])

\* str(n) for n >= 0
RECURSIVE StrOfInt(_)
StrOfInt(n) ==
    IF n < 10 THEN <<Digits[n + 1]>>
    ELSE StrOfInt(n \div 10) \o <<Digits[(n % 10) + 1]>>

\* [c for c in word if pred]
RECURSIVE DigitsOf(_)
DigitsOf(word) ==
    IF word = <<>> THEN <<>>
    ELSE (IF IsDigit(Head(word)) THEN <<Head(word)>> ELSE <<>>) \o DigitsOf(Tail(word))

StartsWith(s, prefix) ==
    /\ Len(prefix) <= Len(s)
    /\ SubSeq(s, 1, Len(prefix)) = prefix

EndsWith(s, suffix) ==
    /\ Len(suffix) <= Len(s)
    /\ SubSeq(s, Len(s) - Len(suffix) + 1, Len(s)) = suffix

\* s.replace(old, ""): every non-overlapping occurrence of old, left to right
RECURSIVE Remove(_, _)
Remove(s, old) ==
    IF s = <<>> \/ old = <<>> THEN s
    ELSE IF StartsWith(s, old) THEN Remove(SubSeq(s, Len(old) + 1, Len(s)), old)
    ELSE <<Head(s)>> \o Remove(Tail(s), old)

\* s.strip(chars) for a one-character set
RECURSIVE LStrip(_, _)
LStrip(s, c) == IF s # <<>> /\ Head(s) = c THEN LStrip(Tail(s), c) ELSE s

RECURSIVE RStrip(_, _)
RStrip(s, c) ==
    IF s # <<>> /\ s[Len(s)] = c THEN RStrip(SubSeq(s, 1, Len(s) - 1), c) ELSE s

Strip(s, c) == RStrip(LStrip(s, c), c)

\* s.split(sep) for a one-character separator: always at least one part
RECURSIVE Split(_, _)
Split(s, sep) ==
    IF \A i \in 1..Len(s) : s[i] # sep THEN <<s>>
    ELSE LET i == CHOOSE j \in 1..Len(s) :
                      s[j] = sep /\ \A k \in 1..(j - 1) : s[k] # sep
         IN  <<SubSeq(s, 1, i - 1)>> \o Split(SubSeq(s, i + 1, Len(s)), sep)

\* s[1:-1]
Inner(s) == SubSeq(s, 2, Len(s) - 1)

\* int(s) accepts a string of digits in which single underscores may separate
\* digits; anything else over the alphabet used here raises ValueError
IntParses(s) ==
    /\ s # <<>>
    /\ \A i \in 1..Len(s) : IsDigit(s[i]) \/ s[i] = "_"
    /\ IsDigit(s[1]) /\ IsDigit(s[Len(s)])
    /\ \A i \in 1..(Len(s) - 1) : ~(s[i] = "_" /\ s[i + 1] = "_")

(***************************************************************************)
(* Outcomes of a call: a returned value or a raised exception              *)
(***************************************************************************)
NoneInt == -1

Ok(v) == [err |-> "", val |-> v]

Raise(e) == [err |-> e, val |-> <<>>]

(***************************************************************************)
(* dict: entries in insertion order                                        *)
(***************************************************************************)
EmptyDict == <<>>

DictHas(d, k) == \E i \in 1..Len(d) : d[i].k = k

DictIndex(d, k) == CHOOSE i \in 1..Len(d) : d[i].k = k

\* d.get(k, None)
DictGet(d, k) == IF DictHas(d, k) THEN <<d[DictIndex(d, k)].v>> ELSE <<>>

\* d[k] = v: an existing key keeps its position
DictSet(d, k, v) ==
    IF DictHas(d, k) THEN [d EXCEPT ![DictIndex(d, k)].v = v]
    ELSE Append(d, [k |-> k, v |-> v])

DictKeys(d) == [i \in 1..Len(d) |-> d[i].k]

DictValues(d) == [i \in 1..Len(d) |-> d[i].v]

\* iter(d): the position, the size the dict had, and whether it is exhausted
NoIter == <<>>

DictIter(d) == <<[pos |-> 0, used |-> Len(d), done |-> FALSE]>>

\* an exhausted iterator has dropped its dict: it only raises StopIteration
Exhausted == <<[pos |-> 0, used |-> 0, done |-> TRUE]>>

\* next(it) over the dict d the iterator was made from; a dict whose size
\* changed makes the iterator raise RuntimeError from then on (used = -1)
DictIterNext(d, it) ==
    IF it[1].done THEN [err |-> "StopIteration", val |-> <<>>, it |-> it]
    ELSE IF it[1].used # Len(d)
    THEN [err |-> "RuntimeError", val |-> <<>>, it |-> <<[it[1] EXCEPT !.used = -1]>>]
    ELSE IF it[1].pos >= Len(d)
    THEN [err |-> "StopIteration", val |-> <<>>, it |-> Exhausted]
    ELSE [err |-> "", val |-> d[it[1].pos + 1].k,
          it |-> <<[it[1] EXCEPT !.pos = it[1].pos + 1]>>]

\* an iterator whose dict object was replaced keeps the old dict, which was
\* empty: it only raises StopIteration
Orphaned(it) == IF it = NoIter THEN it ELSE Exhausted

\* os.path.join(a, b)
PathJoin(a, b) ==
    IF StartsWith(b, <<"/">>) THEN b
    ELSE IF a = <<>> \/ EndsWith(a, <<"/">>) THEN a \o b
    ELSE a \o <<"/">> \o b

(***************************************************************************)
(* Attribute extractor                                                     *)
(***************************************************************************)
\* web.py imports string: the digits of the word as one integer, or None
WebGetIntFromWord(word) ==
    IF DigitsOf(word) = <<>> THEN Ok(NoneInt) ELSE Ok(IntOfDigits(DigitsOf(word)))

\* common.py uses string.digits and never imports string: for a non-empty
\* word the comprehension's condition raises NameError; for an empty word the
\* condition is never evaluated and the result is None
CommonGetIntFromWord(word) ==
    IF word = <<>> THEN Ok(NoneInt) ELSE Raise("NameError")

Attributes(reference, configuration, model_type, member, step, area) ==
    [reference |-> reference, configuration |-> configuration,
     model_type |-> model_type, member |-> member, step |-> step, area |-> area]

\* extract_file_attributes, with the module's own get_int_from_word
ExtractWith(filename, GetInt(_)) ==
    LET Extracted(name_parts, member, step) ==
            IF Len(name_parts) < 2 THEN Raise("IndexError")
            ELSE IF ~IntParses(Inner(name_parts[2])) THEN Raise("ValueError")
            ELSE IF Len(name_parts) < 4 THEN Raise("IndexError")
            ELSE IF member.err # "" THEN Raise(member.err)
            ELSE IF Len(name_parts) < 5 THEN Raise("IndexError")
            ELSE IF step.err # "" THEN Raise(step.err)
            ELSE IF Len(name_parts) < 6 THEN Raise("IndexError")
            ELSE Ok(Attributes(IntOfDigits(DigitsOf(Inner(name_parts[2]))), name_parts[3],
                               IF member.val = NoneInt THEN name_parts[4]
                               ELSE Remove(name_parts[4], <<"_">> \o StrOfInt(member.val)),
                               member.val, step.val, name_parts[6]))
        Parted(name_parts) ==
            Extracted(name_parts, GetInt(name_parts[4]), GetInt(name_parts[5]))
    IN  Parted(Split(filename, "."))

CommonExtractFileAttributes(filename) == ExtractWith(filename, CommonGetIntFromWord)

\* a variant that takes a missing area for an empty one
WebExtractFileAttributesAreaOptional(filename) ==
    IF Len(Split(filename, ".")) = 5 THEN ExtractWith(filename \o <<".">>, WebGetIntFromWord)
    ELSE ExtractWith(filename, WebGetIntFromWord)

WebExtractFileAttributes(filename) == ExtractWith(filename, WebGetIntFromWord)

(***************************************************************************)
(* catalog.py: the records of the lazy tree.  A record stands for one      *)
(* Python object; a container holds its children by value (the tree owns   *)
(* them).                                                                  *)
(***************************************************************************)
File(name, address, reference, configuration, model_type, step, area, member) ==
    [kind |-> "File", name |-> name, address |-> address, reference |-> reference,
     type |-> configuration, model_type |-> model_type, step |-> step,
     area |-> area, member |-> member]

Configuration(configuration_type, address, day, member) ==
    [kind |-> "Configuration", address |-> address, type |-> configuration_type,
     member |-> member, files |-> EmptyDict, key_iterator |-> NoIter, day |-> day]

Day(date, name, address) ==
    [kind |-> "Day", address |-> address, name |-> name, date |-> date,
     configurations |-> EmptyDict, key_iterator |-> NoIter]

Catalog(address) ==
    [kind |-> "Catalog", address |-> address, days |-> EmptyDict, key_iterator |-> NoIter]

TimeSeries(files, reference, configuration, model_type, area, day, member) ==
    [kind |-> "TimeSeries", files |-> files, reference |-> reference,
     configuration |-> configuration, model_type |-> model_type, area |-> area,
     member |-> member, day |-> day]

\* a File from the attributes read off its name
FileFrom(filename, address, attributes) ==
    IF attributes.err # "" THEN Raise(attributes.err)
    ELSE Ok(File(filename, address, attributes.val.reference,
                 attributes.val.configuration, attributes.val.model_type,
                 attributes.val.step, attributes.val.area, attributes.val.member))

\* the list a comprehension builds: its first element, then the rest; the
\* first exception ends it
Cons(first, rest) ==
    IF first.err # "" THEN Raise(first.err)
    ELSE IF rest.err # "" THEN Raise(rest.err)
    ELSE Ok(<<first.val>> \o rest.val)

(***************************************************************************)
(* local.py: the backend of the lazy tree.  ls is what os.listdir gave for *)
(* the address: Raise("OSError"), or Ok of the entries [name, isdir].      *)
(***************************************************************************)
LocalFormConfiguration(day, address, directory) ==
    LET Formed(member) ==
            IF member.err # "" THEN Raise(member.err)
            ELSE Ok(Configuration(
                     Strip(IF member.val = NoneInt THEN directory
                           ELSE Remove(directory, <<"_", "m", "e", "m">> \o StrOfInt(member.val)),
                           "/"),
                     PathJoin(address, directory), day.date, NoneInt))
    IN  Formed(CommonGetIntFromWord(directory))

LocalFormConfigurationFile(directory, filename) ==
    FileFrom(filename, PathJoin(directory, filename), CommonExtractFileAttributes(filename))

\* the list comprehension of fetch_configurations over the entries
RECURSIVE FormConfigurations(_, _)
FormConfigurations(day, entries) ==
    IF entries = <<>> THEN Ok(<<>>)
    ELSE IF ~Head(entries).isdir THEN FormConfigurations(day, Tail(entries))
    ELSE Cons(LocalFormConfiguration(day, day.address, Head(entries).name),
              FormConfigurations(day, Tail(entries)))

LocalFetchConfigurations(day, ls) ==
    IF ls.err # "" THEN Raise(ls.err) ELSE FormConfigurations(day, ls.val)

\* the list comprehension of fetch_files over the entries
RECURSIVE FormFiles(_, _)
FormFiles(configuration, entries) ==
    IF entries = <<>> THEN Ok(<<>>)
    ELSE IF Head(entries).isdir \/ ~EndsWith(Head(entries).name, <<".", "n", "c">>)
    THEN FormFiles(configuration, Tail(entries))
    ELSE Cons(LocalFormConfigurationFile(configuration.address, Head(entries).name),
              FormFiles(configuration, Tail(entries)))

LocalFetchFiles(configuration, ls) ==
    IF ls.err # "" THEN Raise(ls.err) ELSE FormFiles(configuration, ls.val)

(***************************************************************************)
(* catalog.py: Configuration.  A method takes the object and returns the   *)
(* object as the call leaves it (self), the exception (err), the returned  *)
(* value (val) and how often it called the backend (calls).  ls is what    *)
(* os.listdir answers if the method asks.  A key or value handed in from   *)
(* outside is a record whose field kind is its Python type; a str key is   *)
(* [kind |-> "str", v |-> <characters>].                                   *)
(***************************************************************************)
Out(self, err, val, calls) == [self |-> self, err |-> err, val |-> val, calls |-> calls]

IsStr(x) == x.kind = "str"

IsDatetime(x) == x.kind = "datetime"

\* {file.name: file for file in files}
RECURSIVE FilesByName(_)
FilesByName(files) ==
    IF files = <<>> THEN EmptyDict
    ELSE DictSet(FilesByName(SubSeq(files, 1, Len(files) - 1)),
                 files[Len(files)].name, files[Len(files)])

\* _load_files as it would be if it kept quiet about a backend that raised
ConfigurationLoadFilesQuiet(self, ls) ==
    LET Loaded(fetched) ==
            IF fetched.err # "" THEN Out(self, "", <<>>, 1)
            ELSE Out([self EXCEPT !.files = FilesByName(fetched.val),
                                   !.key_iterator = Orphaned(@)],
                     "", <<>>, 1)
    IN  IF Len(self.files) = 0 THEN Loaded(LocalFetchFiles(self, ls))
        ELSE Out(self, "", <<>>, 0)

ConfigurationLoadFiles(self, ls) ==
    LET Loaded(fetched) ==
            IF fetched.err # "" THEN Out(self, fetched.err, <<>>, 1)
            ELSE Out([self EXCEPT !.files = FilesByName(fetched.val),
                                   !.key_iterator = Orphaned(@)],
                     "", <<>>, 1)
    IN  IF Len(self.files) = 0 THEN Loaded(LocalFetchFiles(self, ls))
        ELSE Out(self, "", <<>>, 0)

\* a Configuration that asks the backend on every read
ConfigurationAlwaysLoaded(self, ls) ==
    LET Loaded(fetched) ==
            IF fetched.err # "" THEN Out(self, fetched.err, <<>>, 1)
            ELSE Out([self EXCEPT !.files = FilesByName(fetched.val),
                                   !.key_iterator = Orphaned(@)],
                     "", <<>>, 1)
    IN  Loaded(LocalFetchFiles(self, ls))

\* the guard every read repeats before it calls _load_files
ConfigurationEnsureLoaded(self, ls) ==
    IF Len(self.files) = 0 THEN ConfigurationLoadFiles(self, ls) ELSE Out(self, "", <<>>, 0)

ConfigurationAllFiles(self, ls) ==
    LET Answer(loaded) ==
            IF loaded.err # "" THEN loaded
            ELSE Out(loaded.self, "", DictValues(loaded.self.files), loaded.calls)
    IN  Answer(ConfigurationEnsureLoaded(self, ls))

\* [x for x in xs if x.model_type == model_type and x.reference == reference]
RECURSIVE Matching(_, _, _)
Matching(xs, model_type, reference) ==
    IF xs = <<>> THEN <<>>
    ELSE (IF Head(xs).model_type = model_type /\ Head(xs).reference = reference
          THEN <<Head(xs)>> ELSE <<>>) \o Matching(Tail(xs), model_type, reference)

\* list.sort is stable: x goes after the last element that is not greater
RECURSIVE InsertByStep(_, _)
InsertByStep(sorted, x) ==
    IF sorted = <<>> THEN <<x>>
    ELSE IF sorted[Len(sorted)].step <= x.step THEN Append(sorted, x)
    ELSE Append(InsertByStep(SubSeq(sorted, 1, Len(sorted) - 1), x), sorted[Len(sorted)])

RECURSIVE StableByStep(_)
StableByStep(xs) ==
    IF xs = <<>> THEN <<>>
    ELSE InsertByStep(StableByStep(SubSeq(xs, 1, Len(xs) - 1)), xs[Len(xs)])

\* sorted(xs, key=lambda file: file.step): comparing None raises TypeError
SortedByStep(xs) ==
    IF Len(xs) >= 2 /\ \E i \in 1..Len(xs) : xs[i].step = NoneInt THEN Raise("TypeError")
    ELSE Ok(StableByStep(xs))

ConfigurationGetTimeseries(self, model_type, reference, ls) ==
    LET Sorted(loaded, sorted) == Out(loaded.self, sorted.err, sorted.val, loaded.calls)
        Answer(loaded) ==
            IF loaded.err # "" THEN loaded
            ELSE Sorted(loaded, SortedByStep(Matching(DictValues(loaded.self.files),
                                                      model_type, reference)))
    IN  Answer(ConfigurationEnsureLoaded(self, ls))

\* the partitions dictionary, flattened: one [model_type, reference, files]
\* per pair, model types in first-seen order and references in first-seen
\* order within a model type
PartitionHas(parts, model_type, reference) ==
    \E i \in 1..Len(parts) :
        parts[i].model_type = model_type /\ parts[i].reference = reference

PartitionAdd(parts, file) ==
    IF PartitionHas(parts, file.model_type, file.reference)
    THEN [i \in 1..Len(parts) |->
            IF parts[i].model_type = file.model_type /\ parts[i].reference = file.reference
            THEN [parts[i] EXCEPT !.files = Append(@, file)] ELSE parts[i]]
    ELSE IF \E i \in 1..Len(parts) : parts[i].model_type = file.model_type
    THEN LET last == CHOOSE i \in 1..Len(parts) :
                        /\ parts[i].model_type = file.model_type
                        /\ \A j \in (i + 1)..Len(parts) : parts[j].model_type # file.model_type
         IN  SubSeq(parts, 1, last)
             \o <<[model_type |-> file.model_type, reference |-> file.reference,
                   files |-> <<file>>]>>
             \o SubSeq(parts, last + 1, Len(parts))
    ELSE Append(parts, [model_type |-> file.model_type, reference |-> file.reference,
                        files |-> <<file>>])

RECURSIVE Partitions(_)
Partitions(files) ==
    IF files = <<>> THEN <<>>
    ELSE PartitionAdd(Partitions(SubSeq(files, 1, Len(files) - 1)), files[Len(files)])

\* TimeSeries.__init__ sorts the files it is given
NewTimeSeries(files, reference, configuration, model_type, area, day, member) ==
    LET Made(sorted) ==
            IF sorted.err # "" THEN Raise(sorted.err)
            ELSE Ok(TimeSeries(sorted.val, reference, configuration, model_type, area,
                               day, member))
    IN  Made(SortedByStep(files))

\* get_all_timeseries as it would be if the area were read after the sort
RECURSIVE SeriesOfLowestStep(_, _)
SeriesOfLowestStep(self, parts) ==
    IF parts = <<>> THEN Ok(<<>>)
    ELSE Cons(NewTimeSeries(Head(parts).files, Head(parts).reference, self.type,
                            Head(parts).model_type,
                            StableByStep(Head(parts).files)[1].area,
                            self.day, self.member),
              SeriesOfLowestStep(self, Tail(parts)))

\* one TimeSeries per partition; area is files[0].area of the partition as
\* it was gathered
RECURSIVE SeriesOf(_, _)
SeriesOf(self, parts) ==
    IF parts = <<>> THEN Ok(<<>>)
    ELSE Cons(NewTimeSeries(Head(parts).files, Head(parts).reference, self.type,
                            Head(parts).model_type, Head(parts).files[1].area,
                            self.day, self.member),
              SeriesOf(self, Tail(parts)))

ConfigurationGetAllTimeseries(self, ls) ==
    LET Gathered(loaded, timeseries) ==
            Out(loaded.self, timeseries.err, timeseries.val, loaded.calls)
        Answer(loaded) ==
            IF loaded.err # "" THEN loaded
            ELSE Gathered(loaded, SeriesOf(loaded.self,
                                           Partitions(DictValues(loaded.self.files))))
    IN  Answer(ConfigurationEnsureLoaded(self, ls))

ConfigurationGetItem(self, item, ls) ==
    LET Answer(loaded) ==
            IF loaded.err # "" THEN loaded
            ELSE Out(loaded.self, "", DictGet(loaded.self.files, item.v), loaded.calls)
    IN  IF ~IsStr(item)
        THEN Out(self, "The key for a file in a configuration must be a string", <<>>, 0)
        ELSE Answer(ConfigurationEnsureLoaded(self, ls))

ConfigurationSetItem(self, key, value) ==
    IF ~IsStr(key) /\ value.kind # "File"
    THEN Out(self, "Value cannot be set on configuration; the key is not a string and the value is not a file", <<>>, 0)
    ELSE IF ~IsStr(key)
    THEN Out(self, "Value cannot be set on configuration; the key is not a string", <<>>, 0)
    ELSE IF value.kind # "File"
    THEN Out(self, "Value cannot be set on configuration; the value is not a File", <<>>, 0)
    ELSE Out([self EXCEPT !.files = DictSet(@, key.v, value)], "", <<>>, 0)

\* next(self.key_iterator) on a mapping, and the (key, child) pair it gives;
\* with no iterator yet, __next__ first makes one
Stepped(self, mapping, calls) ==
    LET Paired(step) ==
            Out([self EXCEPT !.key_iterator = step.it], step.err,
                IF step.err # "" THEN <<>> ELSE <<step.val, DictGet(mapping, step.val)[1]>>,
                calls)
    IN  Paired(DictIterNext(mapping, IF self.key_iterator = NoIter THEN DictIter(mapping)
                                     ELSE self.key_iterator))

\* __iter__ as it would be if it kept an iterator the container already has
ConfigurationIterKept(self, ls) ==
    LET Answer(loaded) ==
            IF loaded.err # "" THEN loaded
            ELSE Out([loaded.self EXCEPT
                         !.key_iterator = IF @ = NoIter THEN DictIter(loaded.self.files)
                                          ELSE @],
                     "", <<>>, loaded.calls)
    IN  Answer(ConfigurationEnsureLoaded(self, ls))

ConfigurationIter(self, ls) ==
    LET Answer(loaded) ==
            IF loaded.err # "" THEN loaded
            ELSE Out([loaded.self EXCEPT !.key_iterator = DictIter(loaded.self.files)],
                     "", <<>>, loaded.calls)
    IN  Answer(ConfigurationEnsureLoaded(self, ls))

ConfigurationNext(self, ls) ==
    LET Answer(loaded) ==
            IF loaded.err # "" THEN loaded
            ELSE Stepped(loaded.self, loaded.self.files, loaded.calls)
    IN  Answer(ConfigurationEnsureLoaded(self, ls))

ConfigurationLen(self, ls) ==
    LET Answer(loaded) ==
            IF loaded.err # "" THEN loaded
            ELSE Out(loaded.self, "", Len(loaded.self.files), loaded.calls)
    IN  Answer(ConfigurationEnsureLoaded(self, ls))

(***************************************************************************)
(* catalog.py: Day                                                         *)
(***************************************************************************)
\* {configuration.type: configuration for configuration in configurations}
RECURSIVE ConfigurationsByType(_)
ConfigurationsByType(configurations) ==
    IF configurations = <<>> THEN EmptyDict
    ELSE DictSet(ConfigurationsByType(SubSeq(configurations, 1, Len(configurations) - 1)),
                 configurations[Len(configurations)].type,
                 configurations[Len(configurations)])

DayLoadConfigurations(self, ls) ==
    LET Loaded(fetched) ==
            IF fetched.err # "" THEN Out(self, fetched.err, <<>>, 1)
            ELSE Out([self EXCEPT !.configurations = ConfigurationsByType(fetched.val),
                                   !.key_iterator = Orphaned(@)],
                     "", <<>>, 1)
    IN  IF Len(self.configurations) = 0 THEN Loaded(LocalFetchConfigurations(self, ls))
        ELSE Out(self, "", <<>>, 0)

\* a Day that never asks the backend
DayNeverLoaded(self, ls) == Out(self, "", <<>>, 0)

\* the guard every read repeats before it calls _load_configurations
DayEnsureLoaded(self, ls) ==
    IF Len(self.configurations) = 0 THEN DayLoadConfigurations(self, ls)
    ELSE Out(self, "", <<>>, 0)

DayIter(self, ls) ==
    LET Answer(loaded) ==
            IF loaded.err # "" THEN loaded
            ELSE Out([loaded.self EXCEPT
                         !.key_iterator = DictIter(loaded.self.configurations)],
                     "", <<>>, loaded.calls)
    IN  Answer(DayEnsureLoaded(self, ls))

DayNext(self, ls) ==
    LET Answer(loaded) ==
            IF loaded.err # "" THEN loaded
            ELSE Stepped(loaded.self, loaded.self.configurations, loaded.calls)
    IN  Answer(DayEnsureLoaded(self, ls))

\* a Day whose lookup files a missing key, as dict.setdefault would
DayGetItemSetDefault(self, item, ls) ==
    LET Answer(loaded) ==
            IF loaded.err # "" THEN loaded
            ELSE IF ~IsStr(item)
            THEN Out(loaded.self, "The key for a configuration must be a string", <<>>,
                     loaded.calls)
            ELSE Out([loaded.self EXCEPT !.configurations =
                         DictSet(@, item.v, Configuration(item.v, item.v, self.date, NoneInt))],
                     "", DictGet(loaded.self.configurations, item.v), loaded.calls)
    IN  Answer(DayEnsureLoaded(self, ls))


DayGetItem(self, item, ls) ==
    LET Answer(loaded) ==
            IF loaded.err # "" THEN loaded
            ELSE IF ~IsStr(item)
            THEN Out(loaded.self, "The key for a configuration must be a string", <<>>,
                     loaded.calls)
            ELSE Out(loaded.self, "", DictGet(loaded.self.configurations, item.v),
                     loaded.calls)
    IN  Answer(DayEnsureLoaded(self, ls))

DaySetItem(self, key, value) ==
    IF ~IsStr(key) /\ value.kind # "Configuration"
    THEN Out(self, "Value cannot be set on Day; the key is not a string and the value is not a Configuration", <<>>, 0)
    ELSE IF ~IsStr(key)
    THEN Out(self, "Value cannot be set on Day; the key is not a string", <<>>, 0)
    ELSE IF value.kind # "Configuration"
    THEN Out(self, "Value cannot be set on Day; the value is not a Configuration", <<>>, 0)
    ELSE Out([self EXCEPT !.configurations = DictSet(@, key.v, value)], "", <<>>, 0)

DayLen(self, ls) ==
    LET Answer(loaded) ==
            IF loaded.err # "" THEN loaded
            ELSE Out(loaded.self, "", Len(loaded.self.configurations), loaded.calls)
    IN  Answer(DayEnsureLoaded(self, ls))

(***************************************************************************)
(* catalog.py: Catalog.  It never calls the backend itself: get_catalog    *)
(* fills days by keyed insertion.                                          *)
(***************************************************************************)
CatalogLen(self) == Out(self, "", Len(self.days), 0)

CatalogIter(self) == Out([self EXCEPT !.key_iterator = DictIter(self.days)], "", <<>>, 0)

CatalogNext(self) == Stepped(self, self.days, 0)

CatalogGetItem(self, key) ==
    IF ~IsDatetime(key)
    THEN Out(self, "The key for items in a directory must be a date and time", <<>>, 0)
    ELSE Out(self, "", DictGet(self.days, key.v), 0)

\* a Catalog whose insertion reports a wrong value as a wrong key
CatalogSetItemOneMessage(self, key, value) ==
    IF ~IsDatetime(key) /\ value.kind # "Day"
    THEN Out(self, "The key for the directory must be a date and time and the value must be a Day; neither are true", <<>>, 0)
    ELSE IF ~IsDatetime(key) \/ value.kind # "Day"
    THEN Out(self, "The key in a directory must be a date and time", <<>>, 0)
    ELSE Out([self EXCEPT !.days = DictSet(@, key.v, value)], "", <<>>, 0)


CatalogSetItem(self, key, value) ==
    IF ~IsDatetime(key) /\ value.kind # "Day"
    THEN Out(self, "The key for the directory must be a date and time and the value must be a Day; neither are true", <<>>, 0)
    ELSE IF ~IsDatetime(key)
    THEN Out(self, "The key in a directory must be a date and time", <<>>, 0)
    ELSE IF value.kind # "Day"
    THEN Out(self, "The value in a directory must be a Day", <<>>, 0)
    ELSE Out([self EXCEPT !.days = DictSet(@, key.v, value)], "", <<>>, 0)

\* str.lower()
UpperCase == <<"A", "B", "C", "D", "E", "F", "G", "H", "I", "J", "K", "L", "M",
               "N", "O", "P", "Q", "R", "S", "T", "U", "V", "W", "X", "Y", "Z">>

LowerCase == <<"a", "b", "c", "d", "e", "f", "g", "h", "i", "j", "k", "l", "m",
               "n", "o", "p", "q", "r", "s", "t", "u", "v", "w", "x", "y", "z">>

Lower(s) ==
    [i \in 1..Len(s) |->
        IF \E j \in 1..Len(UpperCase) : UpperCase[j] = s[i]
        THEN LowerCase[CHOOSE j \in 1..Len(UpperCase) : UpperCase[j] = s[i]]
        ELSE s[i]]

\* [series for series in xs if series.model_type.lower() == model_type.lower()]
RECURSIVE OfModelType(_, _)
OfModelType(xs, model_type) ==
    IF xs = <<>> THEN <<>>
    ELSE (IF Lower(Head(xs).model_type) = Lower(model_type) THEN <<Head(xs)>> ELSE <<>>)
         \o OfModelType(Tail(xs), model_type)

\* the loop of Catalog.get_all_timeseries from the i-th day on; dayLs[i] and
\* cfgLs[i] are what os.listdir answers for the i-th day and for its named
\* configuration.  calls is the set of containers whose backend enumeration
\* was called: <<date>> for a Day, <<date, key>> for a Configuration.
RECURSIVE SeriesFrom(_, _, _, _, _, _)
SeriesFrom(days, i, configuration_type, model_type, dayLs, cfgLs) ==
    LET Result(ds, err, val, calls) == [days |-> ds, err |-> err, val |-> val, calls |-> calls]
        Joined(series, rest, calls) ==
            IF rest.err # "" THEN [rest EXCEPT !.calls = @ \cup calls]
            ELSE Result(rest.days, "", OfModelType(series.val, model_type) \o rest.val,
                        rest.calls \cup calls)
        Gathered(days2, series, calls) ==
            IF series.err # "" THEN Result(days2, series.err, <<>>, calls)
            ELSE Joined(series,
                        SeriesFrom(days2, i + 1, configuration_type, model_type, dayLs, cfgLs),
                        calls)
        Found(days1, got, dayCalls, series) ==
            Gathered([days1 EXCEPT ![i].v.configurations =
                          DictSet(@, configuration_type.v, series.self)],
                     series,
                     dayCalls \cup (IF series.calls > 0
                                    THEN {<<days[i].k, configuration_type.v>>} ELSE {}))
        Looked(days1, got, dayCalls) ==
            IF got.err # "" THEN Result(days1, got.err, <<>>, dayCalls)
            ELSE IF got.val = <<>> THEN Result(days1, "AttributeError", <<>>, dayCalls)
            ELSE Found(days1, got, dayCalls,
                       ConfigurationGetAllTimeseries(got.val[1], cfgLs[i]))
        Asked(got) ==
            Looked([days EXCEPT ![i].v = got.self], got,
                   IF got.calls > 0 THEN {<<days[i].k>>} ELSE {})
    IN  IF i > Len(days) THEN Result(days, "", <<>>, {})
        ELSE Asked(DayGetItem(days[i].v, configuration_type, dayLs[i]))

CatalogGetAllTimeseries(self, configuration_type, model_type, dayLs, cfgLs) ==
    LET Answer(r) == [self |-> [self EXCEPT !.days = r.days], err |-> r.err,
                      val |-> r.val, calls |-> r.calls]
    IN  Answer(SeriesFrom(self.days, 1, configuration_type, model_type, dayLs, cfgLs))

(***************************************************************************)
(* The state                                                               *)
(***************************************************************************)
VARIABLES
    catalog,    \* the lazy Catalog that local.get_catalog returned
    lastOp,     \* the last call on the lazy tree and its outcome
    callers,    \* what each of the concurrent callers of the lazy tree is doing
    directory,  \* the eager Directory that web.get_directory fills
    selected,   \* the tree the last selection on the eager tree returned
    nomad       \* the facade the last accepted construction made

vars == <<catalog, lastOp, callers, directory, selected, nomad>>

(***************************************************************************)
(* Inputs                                                                  *)
(***************************************************************************)
MaxFiles == 2

Root == <<"r">>

\* dates, written as their day of the month
First == <<"0", "1">>

Second == <<"0", "2">>

DayName(d) == <<"n", "w", "m", ".">> \o d

ShortRange == <<"s", "r">>

LongRange == <<"l", "r">>

\* file names <x>.t<HH>z.<configuration>.<modeltype>.<step>.<area>.nc
NameC1 == <<"n", ".", "t", "0", "z", ".", "s", "r", ".", "c", ".", "f", "1", ".", "u", ".", "n", "c">>

NameC2 == <<"n", ".", "t", "0", "z", ".", "s", "r", ".", "c", ".", "f", "2", ".", "u", ".", "n", "c">>

\* segments 3 and 4 empty: the one shape common.extract_file_attributes accepts
NameBlank == <<"n", ".", "t", "0", "z", ".", "s", "r", ".", ".", ".", "u", ".", "n", "c">>

\* no reference hour
NameBad == <<"a", ".", "n", "c">>

\* a File as a caller builds it from a name, with the attributes of the name
FileOf(name) == FileFrom(name, PathJoin(Root, name), WebExtractFileAttributes(name)).val

NewDay(d) == Day(d, DayName(d), PathJoin(Root, DayName(d)))

NewConfiguration(name, d) == Configuration(name, PathJoin(DayName(d), name), d, NoneInt)

StrKey(s) == [kind |-> "str", v |-> s]

DateKey(d) == [kind |-> "datetime", v |-> d]

IntKey == [kind |-> "int", v |-> <<"0">>]

Item(key, value) == [key |-> key, value |-> value]

\* keys looked up, and (key, value) pairs inserted: of the right kinds, with
\* the wrong key, with the wrong value, with both wrong
CatalogKeys == {DateKey(First), DateKey(Second), StrKey(ShortRange)}

CatalogItems ==
    {Item(DateKey(First), NewDay(First)), Item(StrKey(ShortRange), NewDay(First)),
     Item(DateKey(First), FileOf(NameC1)), Item(StrKey(ShortRange), FileOf(NameC1))}

DayKeys == {StrKey(ShortRange), StrKey(LongRange), IntKey}

DayItems(d) ==
    {Item(StrKey(ShortRange), NewConfiguration(ShortRange, d)),
     Item(IntKey, NewConfiguration(ShortRange, d)),
     Item(StrKey(ShortRange), FileOf(NameC1)), Item(IntKey, FileOf(NameC1))}

ConfigurationKeys == {StrKey(NameC1), StrKey(NameC2), IntKey}

ConfigurationItems ==
    {Item(StrKey(NameC1), FileOf(NameC1)), Item(StrKey(NameC2), FileOf(NameC2)),
     Item(IntKey, FileOf(NameC1)),
     Item(StrKey(NameC1), NewDay(First)), Item(IntKey, NewDay(First))}

Entry(name, isdir) == [name |-> name, isdir |-> isdir]

\* what os.listdir can answer for a day's address
DayListings ==
    {Raise("OSError"), Ok(<<>>), Ok(<<Entry(NameC1, FALSE)>>), Ok(<<Entry(ShortRange, TRUE)>>)}

\* what os.listdir can answer for a configuration's address
FileListings ==
    {Raise("OSError"), Ok(<<>>), Ok(<<Entry(NameBlank, FALSE)>>),
     Ok(<<Entry(NameBad, FALSE), Entry(NameBlank, FALSE)>>),
     Ok(<<Entry(NameC1, FALSE)>>)}

NoLs == Ok(<<>>)

\* os.listdir is asked only for a container whose mapping is empty
DayListingsFor(day) == IF Len(day.configurations) = 0 THEN DayListings ELSE {NoLs}

FileListingsFor(configuration) ==
    IF Len(configuration.files) = 0 THEN FileListings ELSE {NoLs}

\* the model types asked for: the one of the files, and it in capitals
ModelTypes == {<<"c">>, <<"C">>}

(***************************************************************************)
(* The lazy tree's calls as actions.  i is the position of a Day in the    *)
(* catalog and j the position of a Configuration in that Day.  lastOp      *)
(* records the call: its name, the path of the container it was made on    *)
(* (<<>> the Catalog, <<date>> a Day, <<date, key>> a Configuration), the  *)
(* key and the value handed in, whether the container's mapping was empty  *)
(* when the call was made, the outcome, the containers whose backend       *)
(* enumeration was called, and the listing that call got.                  *)
(***************************************************************************)
DayPath(i) == <<catalog.days[i].k>>

ConfigurationPath(i, j) == <<catalog.days[i].k, catalog.days[i].v.configurations[j].k>>

None == [kind |-> "none", v |-> <<>>]

Op(op, at, key, value, empty, out, calls, ls) ==
    [op |-> op, at |-> at, key |-> key, value |-> value, empty |-> empty,
     err |-> out.err, val |-> out.val, calls |-> calls,
     ls |-> IF calls = {} THEN NoLs ELSE ls]

Called(out, path) == IF out.calls > 0 THEN {path} ELSE {}

\* directory.py: the eager tree's containers hold no iterator and no day
DirectoryConfiguration(configuration_type, address, member) ==
    [kind |-> "Configuration", address |-> address, type |-> configuration_type,
     member |-> member, files |-> EmptyDict]

DirectoryDay(date, name, address) ==
    [kind |-> "Day", address |-> address, name |-> name, date |-> date,
     configurations |-> EmptyDict]

Directory(address) == [kind |-> "Directory", address |-> address, days |-> EmptyDict]

\* the text of the link every page has to the page above it
ParentDirectory == <<"P", "a", "r", "e", "n", "t", " ", "D", "i", "r", "e", "c", "t", "o", "r", "y">>

\* no selection was made
NoSelection == <<>>

NoNomad == <<>>

NoCallers ==
    [c \in {1, 2} |-> [pc |-> "idle", at |-> <<>>, seen |-> <<>>, keys |-> <<>>,
                       ls |-> NoLs, calls |-> 0, fetched |-> <<>>]]

Init ==
    /\ catalog = Catalog(Root)
    /\ lastOp = Op("init", <<>>, None, None, TRUE, Out(catalog, "", <<>>, 0), {}, NoLs)
    /\ callers = NoCallers
    /\ directory = Directory(Root)
    /\ selected = NoSelection
    /\ nomad = NoNomad

\* a call on the Catalog, on its i-th Day, on that Day's j-th Configuration
CatalogCall(op, key, value, out) ==
    /\ catalog' = out.self
    /\ lastOp' = Op(op, <<>>, key, value, Len(catalog.days) = 0, out, {}, NoLs)

DayCall(op, i, key, value, out, ls) ==
    /\ catalog' = [catalog EXCEPT !.days[i].v = out.self]
    /\ lastOp' = Op(op, DayPath(i), key, value, Len(catalog.days[i].v.configurations) = 0,
                    out, Called(out, DayPath(i)), ls)

ConfigurationCall(op, i, j, key, value, out, ls) ==
    /\ catalog' = [catalog EXCEPT !.days[i].v.configurations[j].v = out.self]
    /\ lastOp' = Op(op, ConfigurationPath(i, j), key, value,
                    Len(catalog.days[i].v.configurations[j].v.files) = 0,
                    out, Called(out, ConfigurationPath(i, j)), ls)

Days == 1..Len(catalog.days)

Configurations(i) == 1..Len(catalog.days[i].v.configurations)

DayAt(i) == catalog.days[i].v

ConfigurationAt(i, j) == catalog.days[i].v.configurations[j].v

\* ---- Catalog ----
DoCatalogSetItem ==
    /\ \E item \in CatalogItems :
         CatalogCall("Catalog.__setitem__", item.key, item.value,
                     CatalogSetItem(catalog, item.key, item.value))
    /\ UNCHANGED <<callers, directory, selected, nomad>>

DoCatalogGetItem ==
    /\ \E key \in CatalogKeys :
         CatalogCall("Catalog.__getitem__", key, None, CatalogGetItem(catalog, key))
    /\ UNCHANGED <<callers, directory, selected, nomad>>

DoCatalogLen ==
    /\ CatalogCall("Catalog.__len__", None, None, CatalogLen(catalog))
    /\ UNCHANGED <<callers, directory, selected, nomad>>

DoCatalogIter ==
    /\ CatalogCall("Catalog.__iter__", None, None, CatalogIter(catalog))
    /\ UNCHANGED <<callers, directory, selected, nomad>>

DoCatalogNext ==
    /\ CatalogCall("Catalog.__next__", None, None, CatalogNext(catalog))
    /\ UNCHANGED <<callers, directory, selected, nomad>>

\* ---- Day ----
DoDaySetItem ==
    /\ \E i \in Days : \E item \in DayItems(DayAt(i).date) :
         DayCall("Day.__setitem__", i, item.key, item.value,
                 DaySetItem(DayAt(i), item.key, item.value), NoLs)
    /\ UNCHANGED <<callers, directory, selected, nomad>>

DoDayGetItem ==
    /\ \E i \in Days : \E key \in DayKeys : \E ls \in DayListingsFor(DayAt(i)) :
         DayCall("Day.__getitem__", i, key, None, DayGetItem(DayAt(i), key, ls), ls)
    /\ UNCHANGED <<callers, directory, selected, nomad>>

DoDayLen ==
    /\ \E i \in Days : \E ls \in DayListingsFor(DayAt(i)) :
         DayCall("Day.__len__", i, None, None, DayLen(DayAt(i), ls), ls)
    /\ UNCHANGED <<callers, directory, selected, nomad>>

DoDayIter ==
    /\ \E i \in Days : \E ls \in DayListingsFor(DayAt(i)) :
         DayCall("Day.__iter__", i, None, None, DayIter(DayAt(i), ls), ls)
    /\ UNCHANGED <<callers, directory, selected, nomad>>

DoDayNext ==
    /\ \E i \in Days : \E ls \in DayListingsFor(DayAt(i)) :
         DayCall("Day.__next__", i, None, None, DayNext(DayAt(i), ls), ls)
    /\ UNCHANGED <<callers, directory, selected, nomad>>

\* ---- Configuration ----
DoConfigurationSetItem ==
    /\ \E i \in Days : \E j \in Configurations(i) : \E item \in ConfigurationItems :
         /\ ConfigurationCall("Configuration.__setitem__", i, j, item.key, item.value,
                              ConfigurationSetItem(ConfigurationAt(i, j), item.key, item.value),
                              NoLs)
         /\ Len(ConfigurationAt(i, j).files') <= MaxFiles
    /\ UNCHANGED <<callers, directory, selected, nomad>>

DoConfigurationGetItem ==
    /\ \E i \in Days : \E j \in Configurations(i) : \E key \in ConfigurationKeys :
       \E ls \in FileListingsFor(ConfigurationAt(i, j)) :
         ConfigurationCall("Configuration.__getitem__", i, j, key, None,
                           ConfigurationGetItem(ConfigurationAt(i, j), key, ls), ls)
    /\ UNCHANGED <<callers, directory, selected, nomad>>

DoConfigurationLen ==
    /\ \E i \in Days : \E j \in Configurations(i) :
       \E ls \in FileListingsFor(ConfigurationAt(i, j)) :
         ConfigurationCall("Configuration.__len__", i, j, None, None,
                           ConfigurationLen(ConfigurationAt(i, j), ls), ls)
    /\ UNCHANGED <<callers, directory, selected, nomad>>

DoConfigurationIter ==
    /\ \E i \in Days : \E j \in Configurations(i) :
       \E ls \in FileListingsFor(ConfigurationAt(i, j)) :
         ConfigurationCall("Configuration.__iter__", i, j, None, None,
                           ConfigurationIter(ConfigurationAt(i, j), ls), ls)
    /\ UNCHANGED <<callers, directory, selected, nomad>>

DoConfigurationNext ==
    /\ \E i \in Days : \E j \in Configurations(i) :
       \E ls \in FileListingsFor(ConfigurationAt(i, j)) :
         ConfigurationCall("Configuration.__next__", i, j, None, None,
                           ConfigurationNext(ConfigurationAt(i, j), ls), ls)
    /\ UNCHANGED <<callers, directory, selected, nomad>>

DoConfigurationAllFiles ==
    /\ \E i \in Days : \E j \in Configurations(i) :
       \E ls \in FileListingsFor(ConfigurationAt(i, j)) :
         ConfigurationCall("Configuration.all_files", i, j, None, None,
                           ConfigurationAllFiles(ConfigurationAt(i, j), ls), ls)
    /\ UNCHANGED <<callers, directory, selected, nomad>>

DoConfigurationGetTimeseries ==
    /\ \E i \in Days : \E j \in Configurations(i) : \E model_type \in ModelTypes :
       \E ls \in FileListingsFor(ConfigurationAt(i, j)) :
         ConfigurationCall("Configuration.get_timeseries", i, j, None, None,
                           ConfigurationGetTimeseries(ConfigurationAt(i, j), model_type, 0, ls),
                           ls)
    /\ UNCHANGED <<callers, directory, selected, nomad>>

DoConfigurationGetAllTimeseries ==
    /\ \E i \in Days : \E j \in Configurations(i) :
       \E ls \in FileListingsFor(ConfigurationAt(i, j)) :
         ConfigurationCall("Configuration.get_all_timeseries", i, j, None, None,
                           ConfigurationGetAllTimeseries(ConfigurationAt(i, j), ls), ls)
    /\ UNCHANGED <<callers, directory, selected, nomad>>

Next ==
    \/ DoCatalogSetItem
    \/ DoCatalogGetItem
    \/ DoCatalogLen
    \/ DoCatalogIter
    \/ DoCatalogNext
    \/ DoDaySetItem
    \/ DoDayGetItem
    \/ DoDayLen
    \/ DoDayIter
    \/ DoDayNext
    \/ DoConfigurationSetItem
    \/ DoConfigurationGetItem
    \/ DoConfigurationLen
    \/ DoConfigurationIter
    \/ DoConfigurationNext
    \/ DoConfigurationAllFiles
    \/ DoConfigurationGetTimeseries
    \/ DoConfigurationGetAllTimeseries

Spec == Init /\ [][Next]_vars

(***************************************************************************)
(* Callers that share the tree.  A caller's loop `for key, child in        *)
(* container` is iter(container), which is container.__iter__(), and then  *)
(* next(container) until StopIteration.  pc is where the caller stands, at *)
(* the path of its container, seen the keys its loop body got so far and   *)
(* keys the keys the container held when the loop started.  The tree is    *)
(* filled by keyed insertion before the callers start.                     *)
(***************************************************************************)
Callers == {1, 2}

AllIdle == \A c \in Callers : callers[c].pc = "idle"

DayIndex(path) == DictIndex(catalog.days, path[1])

ConfigurationIndex(path) == DictIndex(DayAt(DayIndex(path)).configurations, path[2])

\* the caller after its iter(container) returned or raised
Started(c, at, keys) ==
    IF lastOp'.err = "" THEN [callers[c] EXCEPT !.pc = "looping", !.at = at, !.keys = keys]
    ELSE [callers[c] EXCEPT !.pc = "failed", !.at = at]

\* the caller after its next(container) returned a pair or raised
Advanced(c) ==
    IF lastOp'.err = "" THEN [callers[c] EXCEPT !.seen = Append(@, lastOp'.val[1])]
    ELSE IF lastOp'.err = "StopIteration" THEN [callers[c] EXCEPT !.pc = "done"]
    ELSE [callers[c] EXCEPT !.pc = "failed"]

Building ==
    /\ AllIdle
    /\ \/ DoCatalogSetItem
       \/ DoDaySetItem
       \/ DoConfigurationSetItem

DayLoopStart ==
    /\ \E c \in Callers : \E i \in Days : \E ls \in DayListingsFor(DayAt(i)) :
         /\ callers[c].pc = "idle"
         /\ DayCall("Day.__iter__", i, None, None, DayIter(DayAt(i), ls), ls)
         /\ callers' = [callers EXCEPT
                           ![c] = Started(c, DayPath(i), DictKeys(DayAt(i).configurations'))]
    /\ UNCHANGED <<directory, selected, nomad>>

DayLoopStep ==
    /\ \E c \in Callers :
         /\ callers[c].pc = "looping"
         /\ Len(callers[c].at) = 1
         /\ \E ls \in DayListingsFor(DayAt(DayIndex(callers[c].at))) :
              DayCall("Day.__next__", DayIndex(callers[c].at), None, None,
                      DayNext(DayAt(DayIndex(callers[c].at)), ls), ls)
         /\ callers' = [callers EXCEPT ![c] = Advanced(c)]
    /\ UNCHANGED <<directory, selected, nomad>>

ConfigurationLoopStart ==
    /\ \E c \in Callers : \E i \in Days : \E j \in Configurations(i) :
       \E ls \in FileListingsFor(ConfigurationAt(i, j)) :
         /\ callers[c].pc = "idle"
         /\ ConfigurationCall("Configuration.__iter__", i, j, None, None,
                              ConfigurationIter(ConfigurationAt(i, j), ls), ls)
         /\ callers' = [callers EXCEPT
                           ![c] = Started(c, ConfigurationPath(i, j),
                                          DictKeys(ConfigurationAt(i, j).files'))]
    /\ UNCHANGED <<directory, selected, nomad>>

ConfigurationLoopStep ==
    /\ \E c \in Callers :
         /\ callers[c].pc = "looping"
         /\ Len(callers[c].at) = 2
         /\ \E ls \in FileListingsFor(ConfigurationAt(DayIndex(callers[c].at),
                                                      ConfigurationIndex(callers[c].at))) :
              ConfigurationCall("Configuration.__next__", DayIndex(callers[c].at),
                                ConfigurationIndex(callers[c].at), None, None,
                                ConfigurationNext(
                                    ConfigurationAt(DayIndex(callers[c].at),
                                                    ConfigurationIndex(callers[c].at)), ls),
                                ls)
         /\ callers' = [callers EXCEPT ![c] = Advanced(c)]
    /\ UNCHANGED <<directory, selected, nomad>>

NextCallers ==
    \/ Building
    \/ DayLoopStart
    \/ DayLoopStep
    \/ ConfigurationLoopStart
    \/ ConfigurationLoopStep

SpecCallers == Init /\ [][NextCallers]_vars

(***************************************************************************)
(* Two callers that read one container at the same time.  A read (here     *)
(* __len__) tests `len(mapping) == 0`; _load_files / _load_configurations  *)
(* tests it again, asks the backend, and assigns the dictionary built from *)
(* the answer.  No lock is held: the callers interleave between the test,  *)
(* the backend call and the assignment.  The backend gives every caller    *)
(* the same listing of one address.                                        *)
(***************************************************************************)
\* the child mapping of the container at a path of the catalog c
MappingAt(c, path) ==
    IF Len(path) = 0 THEN c.days
    ELSE IF Len(path) = 1 THEN DictGet(c.days, path[1])[1].configurations
    ELSE DictGet(DictGet(c.days, path[1])[1].configurations, path[2])[1].files

Paths ==
    {DayPath(i) : i \in Days}
    \cup UNION {{ConfigurationPath(i, j) : j \in Configurations(i)} : i \in Days}

ListingsAt(path) == IF Len(path) = 1 THEN DayListings ELSE FileListings

\* the dictionary _load_configurations / _load_files builds from the listing
FetchedAt(path, ls) ==
    LET Keyed(fetched, byKey) == IF fetched.err # "" THEN fetched ELSE Ok(byKey)
    IN  IF Len(path) = 1
        THEN Keyed(LocalFetchConfigurations(DayAt(DayIndex(path)), ls),
                   ConfigurationsByType(LocalFetchConfigurations(DayAt(DayIndex(path)), ls).val))
        ELSE Keyed(LocalFetchFiles(ConfigurationAt(DayIndex(path), ConfigurationIndex(path)), ls),
                   FilesByName(LocalFetchFiles(
                       ConfigurationAt(DayIndex(path), ConfigurationIndex(path)), ls).val))

\* self.configurations = fetched, self.files = fetched
Assigned(path, mapping) ==
    IF Len(path) = 1
    THEN [catalog EXCEPT !.days[DayIndex(path)].v.configurations = mapping,
                         !.days[DayIndex(path)].v.key_iterator = Orphaned(@)]
    ELSE [catalog EXCEPT
             !.days[DayIndex(path)].v.configurations[ConfigurationIndex(path)].v.files = mapping,
             !.days[DayIndex(path)].v.configurations[ConfigurationIndex(path)].v.key_iterator =
                 Orphaned(@)]

\* __len__: the test before the load
ReadEnter ==
    /\ \E c \in Callers : \E path \in Paths :
         /\ callers[c].pc = "idle"
         /\ callers' = [callers EXCEPT
                           ![c].at = path,
                           ![c].pc = IF Len(MappingAt(catalog, path)) = 0 THEN "guarded"
                                     ELSE "returned"]
    /\ UNCHANGED <<catalog, lastOp, directory, selected, nomad>>

\* the load: its own test, then the backend call
ReadFetch ==
    /\ \E c \in Callers : \E ls \in ListingsAt(callers[c].at) :
         /\ callers[c].pc = "guarded"
         /\ \A d \in Callers :
               (callers[d].calls > 0 /\ callers[d].at = callers[c].at) => ls = callers[d].ls
         /\ callers' = [callers EXCEPT ![c] =
                IF Len(MappingAt(catalog, callers[c].at)) # 0
                THEN [callers[c] EXCEPT !.pc = "returned"]
                ELSE [callers[c] EXCEPT
                         !.pc = IF FetchedAt(callers[c].at, ls).err # "" THEN "raised"
                                ELSE "fetched",
                         !.ls = ls, !.calls = 1,
                         !.fetched = FetchedAt(callers[c].at, ls).val]]
    /\ UNCHANGED <<catalog, lastOp, directory, selected, nomad>>

\* the load: the assignment, and the return of __len__
ReadAssign ==
    /\ \E c \in Callers :
         /\ callers[c].pc = "fetched"
         /\ catalog' = Assigned(callers[c].at, callers[c].fetched)
         /\ callers' = [callers EXCEPT ![c].pc = "returned"]
    /\ UNCHANGED <<lastOp, directory, selected, nomad>>

NextRace ==
    \/ Building
    \/ ReadEnter
    \/ ReadFetch
    \/ ReadAssign

SpecRace == Init /\ [][NextRace]_vars

(***************************************************************************)
(* Catalog.get_all_timeseries over a catalog of two days.  The catalogs it *)
(* starts from are built by keyed insertion: each day inserted bare, or    *)
(* with a short range configuration, that bare or holding one file, or     *)
(* with a long range configuration only.                                   *)
(***************************************************************************)
\* the days a caller has built for a date
BuiltDays(d) ==
    LET bare == NewConfiguration(ShortRange, d)
        filled == ConfigurationSetItem(bare, StrKey(NameC1), FileOf(NameC1)).self
    IN  {NewDay(d),
         DaySetItem(NewDay(d), StrKey(ShortRange), bare).self,
         DaySetItem(NewDay(d), StrKey(ShortRange), filled).self,
         DaySetItem(NewDay(d), StrKey(LongRange), NewConfiguration(LongRange, d)).self}

BuiltCatalogs ==
    {CatalogSetItem(CatalogSetItem(Catalog(Root), DateKey(First), one).self,
                    DateKey(Second), other).self :
        one \in BuiltDays(First), other \in BuiltDays(Second)}

InitSeries ==
    /\ catalog \in BuiltCatalogs
    /\ lastOp = Op("init", <<>>, None, None, TRUE, Out(catalog, "", <<>>, 0), {}, NoLs)
    /\ callers = NoCallers
    /\ directory = Directory(Root)
    /\ selected = NoSelection
    /\ nomad = NoNomad

\* what os.listdir can answer for the addresses of the days, one answer per day
DayAnswers == {ls \in [Days -> DayListings] : \A i \in Days : ls[i] \in DayListingsFor(DayAt(i))}

\* what os.listdir can answer for the address of each day's configuration
FileAnswers ==
    {ls \in [Days -> FileListings] :
        \A i \in Days : \A j \in Configurations(i) : ls[i] \in FileListingsFor(ConfigurationAt(i, j))}

DoCatalogGetAllTimeseries ==
    /\ \E model_type \in ModelTypes : \E dayLs \in DayAnswers : \E cfgLs \in FileAnswers :
         LET Returned(out) ==
                 /\ catalog' = out.self
                 /\ lastOp' = Op("Catalog.get_all_timeseries", <<>>, StrKey(ShortRange),
                                 StrKey(model_type), Len(catalog.days) = 0, out, out.calls, NoLs)
         IN  Returned(CatalogGetAllTimeseries(catalog, StrKey(ShortRange), model_type,
                                              dayLs, cfgLs))
    /\ UNCHANGED <<callers, directory, selected, nomad>>

NextSeries ==
    \/ DoCatalogGetAllTimeseries
    \/ DoDayGetItem
    \/ DoConfigurationAllFiles

SpecSeries == InitSeries /\ [][NextSeries]_vars

(***************************************************************************)
(* The eager tree of directory.py: the same three levels, every mapping    *)
(* filled when the tree is built, no backend behind a read.                *)
(***************************************************************************)
DirectoryConfigurationAddFile(self, file) ==
    Out([self EXCEPT !.files = DictSet(@, file.name, file)], "", <<>>, 0)

DirectoryConfigurationGetItem(self, item) ==
    IF ~IsStr(item)
    THEN Out(self, "The key for a file in a configuration must be a string", <<>>, 0)
    ELSE Out(self, "", DictGet(self.files, item.v), 0)

DirectoryConfigurationSetItem(self, key, value) ==
    IF ~IsStr(key) /\ value.kind # "File"
    THEN Out(self, "Value cannot be set on configuration; the key is not a string and the value is not a file", <<>>, 0)
    ELSE IF ~IsStr(key)
    THEN Out(self, "Value cannot be set on configuration; the key is not a string", <<>>, 0)
    ELSE IF value.kind # "File"
    THEN Out(self, "Value cannot be set on configuration; the value is not a File", <<>>, 0)
    ELSE Out([self EXCEPT !.files = DictSet(@, key.v, value)], "", <<>>, 0)

DirectoryConfigurationLen(self) == Out(self, "", Len(self.files), 0)

DirectoryDayAddConfiguration(self, configuration) ==
    Out([self EXCEPT !.configurations = DictSet(@, configuration.type, configuration)],
        "", <<>>, 0)

DirectoryDayGetItem(self, item) ==
    IF ~IsStr(item) THEN Out(self, "The key for a configuration must be a string", <<>>, 0)
    ELSE Out(self, "", DictGet(self.configurations, item.v), 0)

\* the third test asks whether the value is a File, not a Configuration
DirectoryDaySetItem(self, key, value) ==
    IF ~IsStr(key) /\ value.kind # "Configuration"
    THEN Out(self, "Value cannot be set on Day; the key is not a string and the value is not a Configuration", <<>>, 0)
    ELSE IF ~IsStr(key)
    THEN Out(self, "Value cannot be set on Day; the key is not a string", <<>>, 0)
    ELSE IF value.kind # "File"
    THEN Out(self, "Value cannot be set on Day; the value is not a Configuration", <<>>, 0)
    ELSE Out([self EXCEPT !.configurations = DictSet(@, key.v, value)], "", <<>>, 0)

DirectoryDayLen(self) == Out(self, "", Len(self.configurations), 0)

DirectoryAddDay(self, day) ==
    Out([self EXCEPT !.days = DictSet(@, day.date, day)], "", <<>>, 0)

DirectoryLen(self) == Out(self, "", Len(self.days), 0)

DirectoryGetItem(self, key) ==
    IF ~IsDatetime(key)
    THEN Out(self, "The key for items in a directory must be a date and time", <<>>, 0)
    ELSE Out(self, "", DictGet(self.days, key.v), 0)

DirectorySetItem(self, key, value) ==
    IF ~IsDatetime(key) /\ value.kind # "Day"
    THEN Out(self, "The key for the directory must be a date and time and the value must be a Day; neither are true", <<>>, 0)
    ELSE IF ~IsDatetime(key)
    THEN Out(self, "The key in a directory must be a date and time", <<>>, 0)
    ELSE IF value.kind # "Day"
    THEN Out(self, "The value in a directory must be a Day", <<>>, 0)
    ELSE Out([self EXCEPT !.days = DictSet(@, key.v, value)], "", <<>>, 0)

(***************************************************************************)
(* web.get_directory: the remote discovery.  A page is what requests.get   *)
(* answers for an address: an exception, or a status and the links of the  *)
(* page.  The tree is filled by keyed insertion; nothing is caught.        *)
(***************************************************************************)
Page(status, links) == Ok([status |-> status, links |-> links])

Link(text) == [text |-> text, href |-> text]

\* datetime.strptime(s, "%Y%m%d"): a date is written as its digits
Strptime(s) ==
    IF s # <<>> /\ \A i \in 1..Len(s) : IsDigit(s[i]) THEN Ok(s) ELSE Raise("ValueError")

WebFormConfiguration(address, link) ==
    LET Formed(member) ==
            DirectoryConfiguration(
                Strip(IF member.val = NoneInt THEN link.text
                      ELSE Remove(link.text, <<"_", "m", "e", "m">> \o StrOfInt(member.val)),
                      "/"),
                PathJoin(address, link.href), NoneInt)
    IN  Formed(WebGetIntFromWord(link.text))

WebFormConfigurationFile(address, link) ==
    FileFrom(link.text, PathJoin(address, link.href), WebExtractFileAttributes(link.text))

\* lines 153-160: a Day for every link of the root page that starts with nwm
RECURSIVE FoundDays(_, _, _)
FoundDays(directory_contents, url, links) ==
    LET Kept(set) ==
            IF set.err # "" THEN Raise(set.err)
            ELSE FoundDays(set.self, url, Tail(links))
        Dated(link, date) ==
            IF date.err # "" THEN Raise(date.err)
            ELSE Kept(DirectorySetItem(
                          directory_contents, DateKey(date.val),
                          DirectoryDay(date.val, Strip(link.text, "/"),
                                       PathJoin(url, link.href))))
    IN  IF links = <<>> THEN Ok(directory_contents)
        ELSE IF ~StartsWith(Head(links).text, <<"n", "w", "m">>)
        THEN FoundDays(directory_contents, url, Tail(links))
        ELSE Dated(Head(links), Strptime(SubSeq(Head(links).text, 5, Len(Head(links).text) - 1)))

\* lines 171-178: a Configuration for every link of the day's page
RECURSIVE FoundConfigurations(_, _)
FoundConfigurations(day, links) ==
    LET Kept(set) ==
            IF set.err # "" THEN Raise(set.err)
            ELSE FoundConfigurations(set.self, Tail(links))
    IN  IF links = <<>> THEN Ok(day)
        ELSE IF Head(links).text = ParentDirectory THEN FoundConfigurations(day, Tail(links))
        ELSE Kept(DirectoryDaySetItem(day, StrKey(Strip(Head(links).text, "/")),
                                      WebFormConfiguration(day.address, Head(links))))

\* lines 184-189: a File for every link of the configuration's page that ends in .nc
RECURSIVE FoundFiles(_, _)
FoundFiles(configuration, links) ==
    LET Kept(set) ==
            IF set.err # "" THEN Raise(set.err)
            ELSE FoundFiles(set.self, Tail(links))
        Made(file) ==
            IF file.err # "" THEN Raise(file.err)
            ELSE Kept(DirectoryConfigurationSetItem(configuration, StrKey(Head(links).text),
                                                    file.val))
    IN  IF links = <<>> THEN Ok(configuration)
        ELSE IF ~EndsWith(Head(links).text, <<".", "n", "c">>)
        THEN FoundFiles(configuration, Tail(links))
        ELSE Made(WebFormConfigurationFile(configuration.address, Head(links)))

\* lines 180-189: the files of the day's configurations from j on
RECURSIVE FilledConfigurations(_, _, _)
FilledConfigurations(day, j, page) ==
    LET Kept(found) ==
            IF found.err # "" THEN Raise(found.err)
            ELSE FilledConfigurations([day EXCEPT !.configurations[j].v = found.val],
                                      j + 1, page)
    IN  IF j > Len(day.configurations) THEN Ok(day)
        ELSE IF page.err # "" THEN Raise(page.err)
        ELSE Kept(FoundFiles(day.configurations[j].v, page.val.links))

\* lines 166-189: the days from i on, each from its own page
RECURSIVE FilledDays(_, _, _, _)
FilledDays(directory_contents, i, dayPages, page) ==
    LET Kept(filled) ==
            IF filled.err # "" THEN Raise(filled.err)
            ELSE FilledDays([directory_contents EXCEPT !.days[i].v = filled.val],
                            i + 1, dayPages, page)
        Listed(found) ==
            IF found.err # "" THEN Raise(found.err)
            ELSE Kept(FilledConfigurations(found.val, 1, page))
    IN  IF i > Len(directory_contents.days) THEN Ok(directory_contents)
        ELSE IF dayPages[i].err # "" THEN Raise(dayPages[i].err)
        ELSE Listed(FoundConfigurations(directory_contents.days[i].v, dayPages[i].val.links))

GetDirectory(url, root, dayPages, page) ==
    LET Filled(found) ==
            IF found.err # "" THEN Raise(found.err)
            ELSE FilledDays(found.val, 1, dayPages, page)
    IN  IF root.err # "" THEN Raise(root.err)
        ELSE IF root.val.status >= 400
        THEN Raise("The web service hosting NWM data could not be reached.")
        ELSE Filled(FoundDays(Directory(url), url, root.val.links))

(***************************************************************************)
(* A caller of the eager tree                                              *)
(***************************************************************************)
NewDirectoryDay(d) == DirectoryDay(d, DayName(d), PathJoin(Root, DayName(d)))

NewDirectoryConfiguration(name, d) ==
    DirectoryConfiguration(name, PathJoin(DayName(d), name), NoneInt)

DirectoryItems ==
    {Item(DateKey(First), NewDirectoryDay(First)),
     Item(StrKey(ShortRange), NewDirectoryDay(First)),
     Item(DateKey(First), FileOf(NameC1)), Item(StrKey(ShortRange), FileOf(NameC1))}

DirectoryDayItems(d) ==
    {Item(StrKey(ShortRange), NewDirectoryConfiguration(ShortRange, d)),
     Item(IntKey, NewDirectoryConfiguration(ShortRange, d)),
     Item(StrKey(ShortRange), FileOf(NameC1)), Item(IntKey, FileOf(NameC1))}

RootPages ==
    {Raise("ConnectionError"), Page(404, <<>>), Page(200, <<Link(ParentDirectory)>>),
     Page(200, <<Link(ParentDirectory), Link(DayName(First) \o <<"/">>)>>),
     Page(200, <<Link(DayName(First) \o <<"/">>), Link(DayName(Second) \o <<"/">>)>>)}

DayPages ==
    {Raise("ConnectionError"), Page(200, <<Link(ParentDirectory)>>),
     Page(200, <<Link(ParentDirectory), Link(ShortRange \o <<"/">>)>>)}

ConfigurationPages == {Raise("ConnectionError"), Page(200, <<Link(NameC1)>>)}

DirectoryDays == 1..Len(directory.days)

\* the entries of a day that are configurations
DirectoryConfigurations(i) ==
    {j \in 1..Len(directory.days[i].v.configurations) :
        directory.days[i].v.configurations[j].v.kind = "Configuration"}

DirectoryCall(op, key, value, out) ==
    /\ directory' = out.self
    /\ lastOp' = Op(op, <<>>, key, value, Len(directory.days) = 0, out, {}, NoLs)

DirectoryDayCall(op, i, key, value, out) ==
    /\ directory' = [directory EXCEPT !.days[i].v = out.self]
    /\ lastOp' = Op(op, <<directory.days[i].k>>, key, value,
                    Len(directory.days[i].v.configurations) = 0, out, {}, NoLs)

DirectoryConfigurationCall(op, i, j, key, value, out) ==
    /\ directory' = [directory EXCEPT !.days[i].v.configurations[j].v = out.self]
    /\ lastOp' = Op(op, <<directory.days[i].k, directory.days[i].v.configurations[j].k>>,
                    key, value, Len(directory.days[i].v.configurations[j].v.files) = 0,
                    out, {}, NoLs)

DoDirectorySetItem ==
    /\ \E item \in DirectoryItems :
           DirectoryCall("directory.Directory.__setitem__", item.key, item.value,
                         DirectorySetItem(directory, item.key, item.value))
    /\ UNCHANGED <<catalog, callers, selected, nomad>>

DoDirectoryGetItem ==
    /\ \E key \in CatalogKeys :
           DirectoryCall("directory.Directory.__getitem__", key, None,
                         DirectoryGetItem(directory, key))
    /\ UNCHANGED <<catalog, callers, selected, nomad>>

DoDirectoryLen ==
    /\ DirectoryCall("directory.Directory.__len__", None, None, DirectoryLen(directory))
    /\ UNCHANGED <<catalog, callers, selected, nomad>>

DoDirectoryAddDay ==
    /\ DirectoryCall("directory.Directory.add_day", None, NewDirectoryDay(First),
                     DirectoryAddDay(directory, NewDirectoryDay(First)))
    /\ UNCHANGED <<catalog, callers, selected, nomad>>

DoDirectoryDaySetItem ==
    /\ \E i \in DirectoryDays : \E item \in DirectoryDayItems(directory.days[i].k) :
           DirectoryDayCall("directory.Day.__setitem__", i, item.key, item.value,
                            DirectoryDaySetItem(directory.days[i].v, item.key, item.value))
    /\ UNCHANGED <<catalog, callers, selected, nomad>>

DoDirectoryDayGetItem ==
    /\ \E i \in DirectoryDays : \E key \in DayKeys :
           DirectoryDayCall("directory.Day.__getitem__", i, key, None,
                            DirectoryDayGetItem(directory.days[i].v, key))
    /\ UNCHANGED <<catalog, callers, selected, nomad>>

DoDirectoryDayLen ==
    /\ \E i \in DirectoryDays :
           DirectoryDayCall("directory.Day.__len__", i, None, None,
                            DirectoryDayLen(directory.days[i].v))
    /\ UNCHANGED <<catalog, callers, selected, nomad>>

DoDirectoryDayAddConfiguration ==
    /\ \E i \in DirectoryDays :
           DirectoryDayCall("directory.Day.add_configuration", i, None,
                            NewDirectoryConfiguration(ShortRange, directory.days[i].k),
                            DirectoryDayAddConfiguration(
                                directory.days[i].v,
                                NewDirectoryConfiguration(ShortRange, directory.days[i].k)))
    /\ UNCHANGED <<catalog, callers, selected, nomad>>

DoDirectoryConfigurationSetItem ==
    /\ \E i \in DirectoryDays : \E j \in DirectoryConfigurations(i) :
       \E item \in ConfigurationItems :
           /\ DirectoryConfigurationCall(
                  "directory.Configuration.__setitem__", i, j, item.key, item.value,
                  DirectoryConfigurationSetItem(directory.days[i].v.configurations[j].v,
                                                item.key, item.value))
           /\ Len(directory.days[i].v.configurations[j].v.files') <= MaxFiles
    /\ UNCHANGED <<catalog, callers, selected, nomad>>

DoDirectoryConfigurationGetItem ==
    /\ \E i \in DirectoryDays : \E j \in DirectoryConfigurations(i) :
       \E key \in ConfigurationKeys :
           DirectoryConfigurationCall(
               "directory.Configuration.__getitem__", i, j, key, None,
               DirectoryConfigurationGetItem(directory.days[i].v.configurations[j].v, key))
    /\ UNCHANGED <<catalog, callers, selected, nomad>>

DoDirectoryConfigurationLen ==
    /\ \E i \in DirectoryDays : \E j \in DirectoryConfigurations(i) :
           DirectoryConfigurationCall(
               "directory.Configuration.__len__", i, j, None, None,
               DirectoryConfigurationLen(directory.days[i].v.configurations[j].v))
    /\ UNCHANGED <<catalog, callers, selected, nomad>>

DoDirectoryConfigurationAddFile ==
    /\ \E i \in DirectoryDays : \E j \in DirectoryConfigurations(i) :
           /\ DirectoryConfigurationCall(
                  "directory.Configuration.add_file", i, j, None, FileOf(NameC1),
                  DirectoryConfigurationAddFile(directory.days[i].v.configurations[j].v,
                                                FileOf(NameC1)))
           /\ Len(directory.days[i].v.configurations[j].v.files') <= MaxFiles
    /\ UNCHANGED <<catalog, callers, selected, nomad>>

\* directory = web.get_directory(url): a call that raises leaves the name unbound
DoGetDirectory ==
    /\ \E root \in RootPages : \E dayPages \in [1..2 -> DayPages] :
       \E page \in ConfigurationPages :
           LET Returned(got) ==
                   /\ directory' = IF got.err = "" THEN got.val ELSE directory
                   /\ lastOp' = Op("web.get_directory", <<>>, None, None,
                                   Len(directory.days) = 0,
                                   Out(directory, got.err, <<>>, 0), {}, NoLs)
           IN  Returned(GetDirectory(Root, root, dayPages, page))
    /\ UNCHANGED <<catalog, callers, selected, nomad>>

NextDirectory ==
    \/ DoDirectorySetItem
    \/ DoDirectoryGetItem
    \/ DoDirectoryLen
    \/ DoDirectoryAddDay
    \/ DoDirectoryDaySetItem
    \/ DoDirectoryDayGetItem
    \/ DoDirectoryDayLen
    \/ DoDirectoryDayAddConfiguration
    \/ DoDirectoryConfigurationSetItem
    \/ DoDirectoryConfigurationGetItem
    \/ DoDirectoryConfigurationLen
    \/ DoDirectoryConfigurationAddFile
    \/ DoGetDirectory

SpecDirectory == Init /\ [][NextDirectory]_vars

(***************************************************************************)
(* Configuration.get_all_timeseries over the files a caller inserted.  The *)
(* names give two model types, two reference hours, and step tokens with   *)
(* and without digits.                                                     *)
(***************************************************************************)
MaxSeriesFiles == 3

\* <anything>.t<HH>z.sr.<model type>.<step token>.u.nc
SeriesName(hour, model_type, step) ==
    <<"n", ".", "t", hour, "z", ".", "s", "r", ".">> \o model_type \o <<".">> \o step
    \o <<".", "u", ".", "n", "c">>

SeriesNames ==
    {SeriesName(hour, model_type, step) :
        hour \in {"0", "1"}, model_type \in {<<"c">>, <<"l">>},
        step \in {<<"f">>, <<"g">>, <<"f", "1">>, <<"f", "2">>}}

\* a catalog of one day with one configuration, built by keyed insertion
InitPartition ==
    /\ catalog = CatalogSetItem(
                     Catalog(Root), DateKey(First),
                     DaySetItem(NewDay(First), StrKey(ShortRange),
                                NewConfiguration(ShortRange, First)).self).self
    /\ lastOp = Op("init", <<>>, None, None, TRUE, Out(catalog, "", <<>>, 0), {}, NoLs)
    /\ callers = NoCallers
    /\ directory = Directory(Root)
    /\ selected = NoSelection
    /\ nomad = NoNomad

\* configuration[file.name] = file, for a file the configuration does not hold
DoConfigurationInsertFile ==
    /\ \E i \in Days : \E j \in Configurations(i) : \E name \in SeriesNames :
         /\ Len(ConfigurationAt(i, j).files) < MaxSeriesFiles
         /\ ~DictHas(ConfigurationAt(i, j).files, name)
         /\ ConfigurationCall("Configuration.__setitem__", i, j, StrKey(name), FileOf(name),
                              ConfigurationSetItem(ConfigurationAt(i, j), StrKey(name),
                                                   FileOf(name)),
                              NoLs)
    /\ UNCHANGED <<callers, directory, selected, nomad>>

NextPartition ==
    \/ DoConfigurationInsertFile
    \/ DoConfigurationGetAllTimeseries
    \/ DoConfigurationGetTimeseries

SpecPartition == InitPartition /\ [][NextPartition]_vars

(***************************************************************************)
(* get_file_count of the eager tree.  A filter is unset (None, written     *)
(* <<>>) or set to a value (written <<value>>).                            *)
(***************************************************************************)
Filter(name, reference, configuration_type, date, model_type, step, area, member) ==
    [name |-> name, reference |-> reference, configuration_type |-> configuration_type,
     date |-> date, model_type |-> model_type, step |-> step, area |-> area,
     member |-> member]

\* the condition of the comprehension of Configuration.get_file_count
FileCounts(file, f) ==
    /\ f.name = <<>> \/ file.name = f.name[1]
    /\ f.reference = <<>> \/ file.reference = f.reference[1]
    /\ f.model_type = <<>> \/ file.model_type = f.model_type[1]
    /\ f.step = <<>> \/ file.step = f.step[1]
    /\ f.area = <<>> \/ file.area = f.area[1]
    /\ f.member = <<>> \/ file.member = f.member[1]

\* a count that leaves the step filter out
DirectoryConfigurationGetFileCountNoStep(self, f) ==
    Out(self, "",
        Cardinality({k \in 1..Len(self.files) :
                        FileCounts(self.files[k].v, [f EXCEPT !.step = <<>>])}), 0)

DirectoryConfigurationGetFileCount(self, f) ==
    Out(self, "", Cardinality({k \in 1..Len(self.files) : FileCounts(self.files[k].v, f)}), 0)

\* sum([...]) of the counts of the configurations of the asked type; an entry
\* that is no Configuration has no get_file_count
RECURSIVE CountedConfigurations(_, _)
CountedConfigurations(configurations, f) ==
    LET Added(count, rest) ==
            IF rest.err # "" THEN rest ELSE Ok(count.val + rest.val)
    IN  IF configurations = <<>> THEN Ok(0)
        ELSE IF ~(f.configuration_type = <<>>
                  \/ Head(configurations).type = f.configuration_type[1])
        THEN CountedConfigurations(Tail(configurations), f)
        ELSE IF Head(configurations).kind # "Configuration" THEN Raise("AttributeError")
        ELSE Added(DirectoryConfigurationGetFileCount(Head(configurations), f),
                   CountedConfigurations(Tail(configurations), f))

DirectoryDayGetFileCount(self, f) ==
    LET Summed(counted) == Out(self, counted.err, counted.val, 0)
    IN  Summed(CountedConfigurations(DictValues(self.configurations), f))

RECURSIVE CountedDays(_, _)
CountedDays(days, f) ==
    LET Added(count, rest) ==
            IF count.err # "" THEN Raise(count.err)
            ELSE IF rest.err # "" THEN rest
            ELSE Ok(count.val + rest.val)
    IN  IF days = <<>> THEN Ok(0)
        ELSE IF ~(f.date = <<>> \/ Head(days).date = f.date[1])
        THEN CountedDays(Tail(days), f)
        ELSE Added(DirectoryDayGetFileCount(Head(days), f), CountedDays(Tail(days), f))

DirectoryGetFileCount(self, f) ==
    LET Summed(counted) == Out(self, counted.err, counted.val, 0)
    IN  Summed(CountedDays(DictValues(self.days), f))

(***************************************************************************)
(* A caller that builds the eager tree with add_day, add_configuration and *)
(* add_file and counts its files.                                          *)
(***************************************************************************)
MaxCounted == 2

NameL1 == <<"n", ".", "t", "1", "z", ".", "s", "r", ".", "l", ".", "f", "1", ".", "u", ".", "n", "c">>

CountedNames == {NameC1, NameC2, NameL1}

\* the configurations of the first day and of the second
CountedTypes(d) == IF d = First THEN {ShortRange, LongRange} ELSE {ShortRange}

Unset == Filter(<<>>, <<>>, <<>>, <<>>, <<>>, <<>>, <<>>, <<>>)

\* the filters a Configuration takes: none set, one set to a value a file
\* has or to one no file has, and two set
FileFilters ==
    {Unset}
    \cup {[Unset EXCEPT !.name = <<n>>] : n \in {NameC1, NameBad}}
    \cup {[Unset EXCEPT !.reference = <<r>>] : r \in {0, 5}}
    \cup {[Unset EXCEPT !.model_type = <<m>>] : m \in {<<"c">>, <<"x">>}}
    \cup {[Unset EXCEPT !.step = <<s>>] : s \in {1, 9}}
    \cup {[Unset EXCEPT !.area = <<a>>] : a \in {<<"u">>, <<"m", "a", "r", "s">>}}
    \cup {[Unset EXCEPT !.member = <<3>>],
          [Unset EXCEPT !.reference = <<0>>, !.step = <<2>>]}

\* the filters a Day takes: those, and the configuration type
DayFilters ==
    FileFilters
    \cup {[Unset EXCEPT !.configuration_type = <<t>>] : t \in {ShortRange, <<"x">>}}
    \cup {[Unset EXCEPT !.configuration_type = <<LongRange>>, !.model_type = <<<<"c">>>>]}

\* the filters a Directory takes: those, and the date
DirectoryFilters ==
    DayFilters
    \cup {[Unset EXCEPT !.date = <<d>>] : d \in {First, <<"9", "9">>}}
    \cup {[Unset EXCEPT !.date = <<First>>, !.name = <<NameC1>>]}

FilterKey(f) == [kind |-> "filter", v |-> f]

RECURSIVE Sum(_)
Sum(xs) == IF xs = <<>> THEN 0 ELSE Head(xs) + Sum(Tail(xs))

\* the files the tree holds under its configurations
TreeFiles(tree) ==
    Sum([i \in 1..Len(tree.days) |->
            Sum([j \in 1..Len(tree.days[i].v.configurations) |->
                    IF tree.days[i].v.configurations[j].v.kind = "Configuration"
                    THEN Len(tree.days[i].v.configurations[j].v.files) ELSE 0])])

\* the days are added in the order of their dates
DoCountedAddDay ==
    /\ \E d \in {First, Second} :
         /\ ~DictHas(directory.days, d)
         /\ d = Second => DictHas(directory.days, First)
         /\ DirectoryCall("directory.Directory.add_day", None, NewDirectoryDay(d),
                          DirectoryAddDay(directory, NewDirectoryDay(d)))
    /\ UNCHANGED <<catalog, callers, selected, nomad>>

DoCountedAddConfiguration ==
    /\ \E i \in DirectoryDays : \E name \in CountedTypes(directory.days[i].k) :
         /\ ~DictHas(directory.days[i].v.configurations, name)
         /\ DirectoryDayCall("directory.Day.add_configuration", i, None,
                             NewDirectoryConfiguration(name, directory.days[i].k),
                             DirectoryDayAddConfiguration(
                                 directory.days[i].v,
                                 NewDirectoryConfiguration(name, directory.days[i].k)))
    /\ UNCHANGED <<catalog, callers, selected, nomad>>

DoCountedAddFile ==
    /\ \E i \in DirectoryDays : \E j \in DirectoryConfigurations(i) :
       \E name \in CountedNames :
         /\ TreeFiles(directory) < MaxCounted
         /\ ~DictHas(directory.days[i].v.configurations[j].v.files, name)
         /\ DirectoryConfigurationCall(
                "directory.Configuration.add_file", i, j, None, FileOf(name),
                DirectoryConfigurationAddFile(directory.days[i].v.configurations[j].v,
                                              FileOf(name)))
    /\ UNCHANGED <<catalog, callers, selected, nomad>>

DoDirectoryGetFileCount ==
    /\ \E f \in DirectoryFilters :
         DirectoryCall("directory.Directory.get_file_count", FilterKey(f), None,
                       DirectoryGetFileCount(directory, f))
    /\ UNCHANGED <<catalog, callers, selected, nomad>>

DoDirectoryDayGetFileCount ==
    /\ \E i \in DirectoryDays : \E f \in DayFilters :
         DirectoryDayCall("directory.Day.get_file_count", i, FilterKey(f), None,
                          DirectoryDayGetFileCount(directory.days[i].v, f))
    /\ UNCHANGED <<catalog, callers, selected, nomad>>

DoDirectoryConfigurationGetFileCount ==
    /\ \E i \in DirectoryDays : \E j \in DirectoryConfigurations(i) : \E f \in FileFilters :
         DirectoryConfigurationCall(
             "directory.Configuration.get_file_count", i, j, FilterKey(f), None,
             DirectoryConfigurationGetFileCount(directory.days[i].v.configurations[j].v, f))
    /\ UNCHANGED <<catalog, callers, selected, nomad>>

NextCounted ==
    \/ DoCountedAddDay
    \/ DoCountedAddConfiguration
    \/ DoCountedAddFile
    \/ DoDirectoryGetFileCount
    \/ DoDirectoryDayGetFileCount
    \/ DoDirectoryConfigurationGetFileCount

SpecCounted == Init /\ [][NextCounted]_vars

(***************************************************************************)
(* The selections of the eager tree.  boolean_function is one of a few     *)
(* named predicates.  A selection builds new containers; where the code    *)
(* adds a child object of the source itself to the new container, the new  *)
(* container holds a Shared entry: the place of that object in the source  *)
(* tree, with the fields add_day and add_configuration read from it.       *)
(***************************************************************************)
Holds(boolean_function, x) ==
    CASE boolean_function = "always" -> TRUE
      [] boolean_function = "never" -> FALSE
      [] boolean_function = "step one" -> x.step = 1
      [] boolean_function = "short range" -> x.type = ShortRange
      [] boolean_function = "first day" -> x.date = First

Shared(object, at) ==
    [kind |-> "shared", at |-> at, is |-> object.kind,
     type |-> IF object.kind = "Configuration" THEN object.type ELSE <<>>,
     date |-> IF object.kind = "Day" THEN object.date ELSE <<>>]

RECURSIVE SelectedFiles(_, _, _)
SelectedFiles(new_configuration, files, boolean_function) ==
    IF files = <<>> THEN new_configuration
    ELSE SelectedFiles(IF Holds(boolean_function, Head(files))
                       THEN DirectoryConfigurationAddFile(new_configuration, Head(files)).self
                       ELSE new_configuration,
                       Tail(files), boolean_function)

DirectoryConfigurationSelectFiles(self, boolean_function) ==
    Ok(SelectedFiles(DirectoryConfiguration(self.type, self.address, self.member),
                     DictValues(self.files), boolean_function))

\* an entry of the day that is no Configuration has no select_files
RECURSIVE SelectedFilesOfDay(_, _, _)
SelectedFilesOfDay(new_day, configurations, boolean_function) ==
    LET Kept(new_configuration) ==
            SelectedFilesOfDay(
                IF Len(new_configuration.val.files) > 0
                THEN DirectoryDayAddConfiguration(new_day, new_configuration.val).self
                ELSE new_day,
                Tail(configurations), boolean_function)
    IN  IF configurations = <<>> THEN Ok(new_day)
        ELSE IF Head(configurations).kind # "Configuration" THEN Raise("AttributeError")
        ELSE Kept(DirectoryConfigurationSelectFiles(Head(configurations), boolean_function))

DirectoryDaySelectFiles(self, boolean_function) ==
    SelectedFilesOfDay(DirectoryDay(self.date, self.name, self.address),
                       DictValues(self.configurations), boolean_function)

\* the configurations from position j on; the configuration itself is added
RECURSIVE SelectedConfigurations(_, _, _, _, _)
SelectedConfigurations(new_day, self, at, j, boolean_function) ==
    IF j > Len(self.configurations) THEN new_day
    ELSE SelectedConfigurations(
             IF Holds(boolean_function, self.configurations[j].v)
             THEN DirectoryDayAddConfiguration(
                      new_day, Shared(self.configurations[j].v,
                                      Append(at, self.configurations[j].k))).self
             ELSE new_day,
             self, at, j + 1, boolean_function)

DirectoryDaySelectConfigurations(self, at, boolean_function) ==
    Ok(SelectedConfigurations(DirectoryDay(self.date, self.name, self.address),
                              self, at, 1, boolean_function))

\* the days from position i on; the day itself is added
RECURSIVE SelectedDays(_, _, _, _)
SelectedDays(new_directory, self, i, boolean_function) ==
    IF i > Len(self.days) THEN new_directory
    ELSE SelectedDays(IF Holds(boolean_function, self.days[i].v)
                      THEN DirectoryAddDay(new_directory,
                                           Shared(self.days[i].v, <<self.days[i].k>>)).self
                      ELSE new_directory,
                      self, i + 1, boolean_function)

DirectorySelectDays(self, boolean_function) ==
    Ok(SelectedDays(Directory(self.address), self, 1, boolean_function))

RECURSIVE SelectedFilesOfDays(_, _, _)
SelectedFilesOfDays(new_directory, days, boolean_function) ==
    LET Kept(new_day) ==
            IF new_day.err # "" THEN Raise(new_day.err)
            ELSE SelectedFilesOfDays(
                     IF Len(new_day.val.configurations) > 0
                     THEN DirectoryAddDay(new_directory, new_day.val).self
                     ELSE new_directory,
                     Tail(days), boolean_function)
    IN  IF days = <<>> THEN Ok(new_directory)
        ELSE Kept(DirectoryDaySelectFiles(Head(days), boolean_function))

DirectorySelectFiles(self, boolean_function) ==
    SelectedFilesOfDays(Directory(self.address), DictValues(self.days), boolean_function)

RECURSIVE SelectedConfigurationsOfDays(_, _, _, _)
SelectedConfigurationsOfDays(new_directory, self, i, boolean_function) ==
    LET Kept(new_day) ==
            SelectedConfigurationsOfDays(
                IF Len(new_day.val.configurations) > 0
                THEN DirectoryAddDay(new_directory, new_day.val).self
                ELSE new_directory,
                self, i + 1, boolean_function)
    IN  IF i > Len(self.days) THEN Ok(new_directory)
        ELSE Kept(DirectoryDaySelectConfigurations(self.days[i].v, <<self.days[i].k>>,
                                                   boolean_function))

DirectorySelectConfigurations(self, boolean_function) ==
    SelectedConfigurationsOfDays(Directory(self.address), self, 1, boolean_function)

(***************************************************************************)
(* A caller of the selections.  The source tree is built by the add        *)
(* methods and by keyed insertion, one selection is taken from it, and     *)
(* the caller then inserts into the containers of the returned tree.       *)
(* selected holds the returned tree and the number of those insertions.    *)
(***************************************************************************)
MaxSelectedInserts == 1

Alias == <<"a">>

FilePredicates == {"always", "never", "step one"}

ConfigurationPredicates == {"always", "never", "short range"}

DayPredicates == {"always", "never", "first day"}

Predicate(boolean_function) == [kind |-> "predicate", v |-> <<boolean_function>>]

Returned(tree) == <<[tree |-> tree, inserts |-> 0]>>

Children(node) ==
    IF node.kind = "Directory" THEN node.days
    ELSE IF node.kind = "Day" THEN node.configurations
    ELSE node.files

\* the object of the source tree under the keys of a path
SourceAt(at) ==
    IF Len(at) = 1 THEN directory.days[DictIndex(directory.days, at[1])].v
    ELSE directory.days[DictIndex(directory.days, at[1])].v.configurations[
             DictIndex(directory.days[DictIndex(directory.days, at[1])].v.configurations,
                       at[2])].v

WithSource(at, object) ==
    IF Len(at) = 1
    THEN [directory EXCEPT !.days[DictIndex(directory.days, at[1])].v = object]
    ELSE [directory EXCEPT
             !.days[DictIndex(directory.days, at[1])].v.configurations[
                 DictIndex(directory.days[DictIndex(directory.days, at[1])].v.configurations,
                           at[2])].v = object]

\* the object an entry stands for
Resolve(entry) == IF entry.kind = "shared" THEN SourceAt(entry.at) ELSE entry

\* the container of the returned tree under the keys of a path
ChildAt(node, key) == Children(node)[DictIndex(Children(node), key)].v

NodeAt(tree, at) ==
    IF Len(at) = 0 THEN tree
    ELSE IF Len(at) = 1 THEN ChildAt(tree, at[1])
    ELSE Children(ChildAt(tree, at[1]))[DictIndex(Children(ChildAt(tree, at[1])), at[2])].v

WithNode(tree, at, object) ==
    IF Len(at) = 0 THEN object
    ELSE IF Len(at) = 1 /\ tree.kind = "Directory"
    THEN [tree EXCEPT !.days[DictIndex(tree.days, at[1])].v = object]
    ELSE IF Len(at) = 1
    THEN [tree EXCEPT !.configurations[DictIndex(tree.configurations, at[1])].v = object]
    ELSE [tree EXCEPT
             !.days[DictIndex(tree.days, at[1])].v.configurations[
                 DictIndex(ChildAt(tree, at[1]).configurations, at[2])].v = object]

Handle(in, path, kind) == [in |-> in, path |-> path, kind |-> kind]

\* a shared object and, for a day, the configurations it holds
SourceHandles(entry) ==
    {Handle("source", entry.at, entry.is)}
    \cup IF entry.is # "Day" THEN {}
         ELSE {Handle("source", Append(entry.at, SourceAt(entry.at).configurations[j].k),
                      "Configuration") :
                 j \in {j \in 1..Len(SourceAt(entry.at).configurations) :
                          SourceAt(entry.at).configurations[j].v.kind = "Configuration"}}

\* the containers a caller reaches from a new container of the returned tree
RECURSIVE Handles(_, _)
Handles(node, at) ==
    {Handle("selected", at, node.kind)}
    \cup UNION {IF Children(node)[i].v.kind = "File" THEN {}
                ELSE IF Children(node)[i].v.kind = "shared"
                THEN SourceHandles(Children(node)[i].v)
                ELSE Handles(Children(node)[i].v, Append(at, Children(node)[i].k)) :
                  i \in 1..Len(Children(node))}

Containers(kind) ==
    IF selected = NoSelection THEN {}
    ELSE {h \in Handles(selected[1].tree, <<>>) : h.kind = kind}

Object(h) ==
    IF h.in = "source" THEN SourceAt(h.path) ELSE NodeAt(selected[1].tree, h.path)

\* an insertion into a container of the returned tree changes the object the
\* container is: an object of the source, or one the selection made
SelectedCall(op, h, key, value, out) ==
    /\ selected[1].inserts < MaxSelectedInserts
    /\ lastOp' = Op(op, h, key, value, Len(Children(Object(h))) = 0, out, {}, NoLs)
    /\ directory' = IF h.in = "source" THEN WithSource(h.path, out.self) ELSE directory
    /\ selected' = <<[tree |-> IF h.in = "source" THEN selected[1].tree
                               ELSE WithNode(selected[1].tree, h.path, out.self),
                      inserts |-> selected[1].inserts + 1]>>

DoSourceAddDay ==
    /\ selected = NoSelection
    /\ DoCountedAddDay

DoSourceAddConfiguration ==
    /\ selected = NoSelection
    /\ DoCountedAddConfiguration

DoSourceAddFile ==
    /\ selected = NoSelection
    /\ DoCountedAddFile

\* a second File of the same name, found at another address
Elsewhere(file) == [file EXCEPT !.address = PathJoin(<<"o">>, file.name)]

KeyedFiles == {Item(StrKey(name), FileOf(name)) : name \in {NameC1, NameC2}}
              \cup {Item(StrKey(Alias), Elsewhere(FileOf(NameC1)))}

\* configuration[key] = file, under the file's name or under another key
DoSourceSetItem ==
    /\ selected = NoSelection
    /\ \E i \in DirectoryDays : \E j \in DirectoryConfigurations(i) : \E item \in KeyedFiles :
         /\ TreeFiles(directory) < MaxCounted
         /\ ~DictHas(directory.days[i].v.configurations[j].v.files, item.key.v)
         /\ DirectoryConfigurationCall(
                "directory.Configuration.__setitem__", i, j, item.key, item.value,
                DirectoryConfigurationSetItem(directory.days[i].v.configurations[j].v,
                                              item.key, item.value))
    /\ UNCHANGED <<catalog, callers, selected, nomad>>

\* a selection leaves the tree it reads as it is and returns a new one
Selection(op, at, boolean_function, empty, answer) ==
    /\ selected = NoSelection
    /\ lastOp' = Op(op, at, Predicate(boolean_function), None, empty,
                    Out(<<>>, answer.err, <<>>, 0), {}, NoLs)
    /\ selected' = IF answer.err # "" THEN NoSelection ELSE Returned(answer.val)

DoDirectorySelectDays ==
    /\ \E f \in DayPredicates :
         Selection("directory.Directory.select_days", <<>>, f, Len(directory.days) = 0,
                   DirectorySelectDays(directory, f))
    /\ UNCHANGED <<catalog, callers, directory, nomad>>

DoDirectorySelectFiles ==
    /\ \E f \in FilePredicates :
         Selection("directory.Directory.select_files", <<>>, f, Len(directory.days) = 0,
                   DirectorySelectFiles(directory, f))
    /\ UNCHANGED <<catalog, callers, directory, nomad>>

DoDirectorySelectConfigurations ==
    /\ \E f \in ConfigurationPredicates :
         Selection("directory.Directory.select_configurations", <<>>, f,
                   Len(directory.days) = 0, DirectorySelectConfigurations(directory, f))
    /\ UNCHANGED <<catalog, callers, directory, nomad>>

DoDirectoryDaySelectFiles ==
    /\ \E i \in DirectoryDays : \E f \in FilePredicates :
         Selection("directory.Day.select_files", <<directory.days[i].k>>, f,
                   Len(directory.days[i].v.configurations) = 0,
                   DirectoryDaySelectFiles(directory.days[i].v, f))
    /\ UNCHANGED <<catalog, callers, directory, nomad>>

DoDirectoryDaySelectConfigurations ==
    /\ \E i \in DirectoryDays : \E f \in ConfigurationPredicates :
         Selection("directory.Day.select_configurations", <<directory.days[i].k>>, f,
                   Len(directory.days[i].v.configurations) = 0,
                   DirectoryDaySelectConfigurations(directory.days[i].v,
                                                    <<directory.days[i].k>>, f))
    /\ UNCHANGED <<catalog, callers, directory, nomad>>

DoDirectoryConfigurationSelectFiles ==
    /\ \E i \in DirectoryDays : \E j \in DirectoryConfigurations(i) : \E f \in FilePredicates :
         Selection("directory.Configuration.select_files",
                   <<directory.days[i].k, directory.days[i].v.configurations[j].k>>, f,
                   Len(directory.days[i].v.configurations[j].v.files) = 0,
                   DirectoryConfigurationSelectFiles(directory.days[i].v.configurations[j].v, f))
    /\ UNCHANGED <<catalog, callers, directory, nomad>>

DoSelectedAddDay ==
    /\ \E h \in Containers("Directory") :
         SelectedCall("directory.Directory.add_day", h, None, NewDirectoryDay(Second),
                      DirectoryAddDay(Object(h), NewDirectoryDay(Second)))
    /\ UNCHANGED <<catalog, callers, nomad>>

DoSelectedAddConfiguration ==
    /\ \E h \in Containers("Day") :
         SelectedCall("directory.Day.add_configuration", h, None,
                      NewDirectoryConfiguration(LongRange, Object(h).date),
                      DirectoryDayAddConfiguration(
                          Object(h), NewDirectoryConfiguration(LongRange, Object(h).date)))
    /\ UNCHANGED <<catalog, callers, nomad>>

DoSelectedAddFile ==
    /\ \E h \in Containers("Configuration") : \E name \in CountedNames :
         /\ ~DictHas(Object(h).files, name)
         /\ SelectedCall("directory.Configuration.add_file", h, None, FileOf(name),
                         DirectoryConfigurationAddFile(Object(h), FileOf(name)))
    /\ UNCHANGED <<catalog, callers, nomad>>

\* container[key] = value on a container of the returned tree
DoSelectedSetItem ==
    /\ \/ \E h \in Containers("Directory") :
            SelectedCall("directory.Directory.__setitem__", h, DateKey(Second),
                         NewDirectoryDay(Second),
                         DirectorySetItem(Object(h), DateKey(Second), NewDirectoryDay(Second)))
       \/ \E h \in Containers("Day") :
            SelectedCall("directory.Day.__setitem__", h, StrKey(LongRange),
                         NewDirectoryConfiguration(LongRange, Object(h).date),
                         DirectoryDaySetItem(
                             Object(h), StrKey(LongRange),
                             NewDirectoryConfiguration(LongRange, Object(h).date)))
       \/ \E h \in Containers("Configuration") :
            SelectedCall("directory.Configuration.__setitem__", h, StrKey(NameL1),
                         FileOf(NameL1),
                         DirectoryConfigurationSetItem(Object(h), StrKey(NameL1),
                                                       FileOf(NameL1)))
    /\ UNCHANGED <<catalog, callers, nomad>>

NextSelect ==
    \/ DoSourceAddDay
    \/ DoSourceAddConfiguration
    \/ DoSourceAddFile
    \/ DoSourceSetItem
    \/ DoDirectorySelectDays
    \/ DoDirectorySelectFiles
    \/ DoDirectorySelectConfigurations
    \/ DoDirectoryDaySelectFiles
    \/ DoDirectoryDaySelectConfigurations
    \/ DoDirectoryConfigurationSelectFiles
    \/ DoSelectedAddDay
    \/ DoSelectedAddConfiguration
    \/ DoSelectedAddFile
    \/ DoSelectedSetItem

SpecSelect == Init /\ [][NextSelect]_vars

(***************************************************************************)
(* The attribute extractor and form_configuration as functions of a name.  *)
(* The name is drawn when the run starts; each action applies one of the   *)
(* functions to it and records the outcome.                                *)
(***************************************************************************)
\* model-type/member tokens: without digits, with one member suffix, with
\* digits apart, with a repeated suffix, with leading zeros, digits only, empty
Tokens ==
    {<<"c">>,
     <<"c", "h", "a", "n", "n", "e", "l", "_", "r", "t">>,
     <<"c", "h", "a", "n", "n", "e", "l", "_", "r", "t", "_", "3">>,
     <<"c", "_", "3">>,
     <<"c", "_", "1", "2">>,
     <<"c", "1", "_", "2">>,
     <<"c", "_", "3", "_", "3">>,
     <<"c", "_", "0", "3">>,
     <<"_", "0", "_", "0">>,
     <<"c", "_", "0", "_", "0">>,
     <<"3">>,
     <<>>}

\* the segments of a file name around a token
Segments(token) ==
    <<<<"n">>, <<"t", "0", "z">>, ShortRange, token, <<"f", "1">>, <<"u">>, <<"n", "c">>>>

\* ".".join(parts)
RECURSIVE Joined(_)
Joined(parts) ==
    IF Len(parts) = 0 THEN <<>>
    ELSE IF Len(parts) = 1 THEN parts[1]
    ELSE parts[1] \o <<".">> \o Joined(Tail(parts))

\* whole names, names cut after their first segments, names without a
\* readable hour and names with empty segments
ExtractNames ==
    {Joined(Segments(token)) : token \in Tokens}
    \cup {Joined(SubSeq(Segments(token), 1, n)) :
            token \in {<<"c">>, <<>>, <<"c", "_", "3">>}, n \in 1..6}
    \cup {NameBlank, NameBad, <<"n", ".", "t", "z", ".", "s", "r", ".", "c", ".", "f", "1", ".", "u", ".", "n", "c">>, <<"n", ".", "t", "0", "z", ".", "s", "r", ".", ".">>, <<"n", ".", "t", "0", "z", ".", "s", "r", ".", ".", "f", "1">>, <<"n", ".", "t", "0", "z", ".", "s", "r", ".", "c", ".">>}

\* the names of the entries listed under a day
EntryNames ==
    {<<"s", "r">>,
     <<"s", "r", "/">>,
     <<"s", "r", "_", "m", "e", "m", "1">>,
     <<"m", "r", "_", "m", "e", "m", "1", "2", "/">>,
     <<"m", "r", "_", "m", "e", "m", "1", "_", "m", "e", "m", "1">>,
     <<"s", "r", "_", "m", "e", "m", "0", "1">>,
     <<"m", "e", "m", "2">>,
     <<"v", "2", "_", "m", "e", "m", "1">>,
     <<"s", "r", "_", "1">>}

InitExtract ==
    /\ catalog = Catalog(Root)
    /\ \E name \in ExtractNames \cup EntryNames :
         lastOp = Op("init", <<>>, StrKey(name), None, TRUE, Out(catalog, "", <<>>, 0), {}, NoLs)
    /\ callers = NoCallers
    /\ directory = Directory(Root)
    /\ selected = NoSelection
    /\ nomad = NoNomad

\* the outcome of a function of the name: what it raised, or <<what it returned>>
Applied(op, answer) ==
    lastOp' = Op(op, <<>>, lastOp.key, None, FALSE,
                 Out(<<>>, answer.err, IF answer.err = "" THEN <<answer.val>> ELSE <<>>, 0),
                 {}, NoLs)

DoCommonExtractFileAttributes ==
    /\ lastOp.key.v \in ExtractNames
    /\ Applied("common.extract_file_attributes", CommonExtractFileAttributes(lastOp.key.v))
    /\ UNCHANGED <<catalog, callers, directory, selected, nomad>>

DoWebExtractFileAttributes ==
    /\ lastOp.key.v \in ExtractNames
    /\ Applied("web.extract_file_attributes", WebExtractFileAttributes(lastOp.key.v))
    /\ UNCHANGED <<catalog, callers, directory, selected, nomad>>

DoLocalFormConfiguration ==
    /\ lastOp.key.v \in EntryNames
    /\ Applied("local.form_configuration",
               LocalFormConfiguration(NewDay(First), NewDay(First).address, lastOp.key.v))
    /\ UNCHANGED <<catalog, callers, directory, selected, nomad>>

DoWebFormConfiguration ==
    /\ lastOp.key.v \in EntryNames
    /\ Applied("web.form_configuration",
               Ok(WebFormConfiguration(NewDirectoryDay(First).address, Link(lastOp.key.v))))
    /\ UNCHANGED <<catalog, callers, directory, selected, nomad>>

NextExtract ==
    \/ DoCommonExtractFileAttributes
    \/ DoWebExtractFileAttributes
    \/ DoLocalFormConfiguration
    \/ DoWebFormConfiguration

SpecExtract == InitExtract /\ [][NextExtract]_vars

(***************************************************************************)
(* nomad.py: the facade, and the discovery module it asks (discovery.py).  *)
(* An address is None (<<>>) or a string (<<s>>).  exit(-1) raises         *)
(* SystemExit: the constructor returns no object.                          *)
(***************************************************************************)
Local == <<"l", "o", "c", "a", "l">>

Remote == <<"r", "e", "m", "o", "t", "e">>

\* the keys of discovery.EXPLORERS
EXPLORERS == {Local, Remote}

\* web._NOMADS_ADDRESS
NomadsAddress == <<"h">>

Nomad(address, explorer) ==
    IF explorer \notin EXPLORERS THEN Raise("SystemExit")
    ELSE IF explorer = Local /\ address = <<>> THEN Raise("SystemExit")
    ELSE Ok([kind |-> "Nomad", address |-> address, explorer |-> explorer,
             catalog |-> <<>>, loaded |-> FALSE])

\* EXPLORERS.get(explorer, web).get_directory(url): local.py defines
\* get_catalog and no get_directory
Discover(explorer, url, root, dayPages, page) ==
    IF explorer = Local THEN Raise("AttributeError")
    ELSE GetDirectory(IF url = <<>> THEN NomadsAddress ELSE url[1], root, dayPages, page)

\* an exception of discover leaves catalog and loaded as they were
NomadExplore(self, root, dayPages, page) ==
    LET Explored(got) ==
            IF got.err # "" THEN Out(self, got.err, <<>>, 1)
            ELSE Out([self EXCEPT !.catalog = <<got.val>>, !.loaded = TRUE], "", <<>>, 1)
    IN  Explored(Discover(self.explorer, self.address, root, dayPages, page))

(***************************************************************************)
(* A caller of the facade                                                  *)
(***************************************************************************)
Addresses == {<<>>, <<<<>>>>, <<Root>>, <<<<"o">>>>}

ExplorerNames == {Local, Remote, <<>>, <<"L", "o", "c", "a", "l">>, <<"f", "t", "p">>,
                  <<"w", "e", "b">>}

Address(address) == [kind |-> "address", v |-> address]

\* nomad = Nomad(address, explorer): a constructor that raises leaves the
\* name as it was
DoNomad ==
    /\ \E address \in Addresses : \E explorer \in ExplorerNames :
         LET Made(made) ==
                 /\ nomad' = IF made.err = "" THEN <<made.val>> ELSE nomad
                 /\ lastOp' = Op("nomad.Nomad.__init__", <<>>, StrKey(explorer),
                                 Address(address), nomad = NoNomad,
                                 Out(<<>>, made.err,
                                     IF made.err = "" THEN <<made.val>> ELSE <<>>, 0),
                                 {}, NoLs)
         IN  Made(Nomad(address, explorer))
    /\ UNCHANGED <<catalog, callers, directory, selected>>

DoNomadExplore ==
    /\ nomad # NoNomad
    /\ \E root \in RootPages : \E dayPages \in [1..2 -> {Page(200, <<Link(ParentDirectory)>>)}] :
       \E page \in ConfigurationPages :
         LET Explored(out) ==
                 /\ nomad' = <<out.self>>
                 /\ lastOp' = Op("nomad.Nomad.explore", <<>>, StrKey(nomad[1].explorer),
                                 Address(nomad[1].address), ~nomad[1].loaded,
                                 Out(<<>>, out.err, <<>>, 0), {<<"discover">>}, NoLs)
         IN  Explored(NomadExplore(nomad[1], root, dayPages, page))
    /\ UNCHANGED <<catalog, callers, directory, selected>>

NextNomad ==
    \/ DoNomad
    \/ DoNomadExplore

SpecNomad == Init /\ [][NextNomad]_vars

(***************************************************************************)
(* A caller that fills one Configuration with files that differ in member, *)
(* step and area, and asks it for its time series.                         *)
(***************************************************************************)
VariantName(hour, token, step, area) ==
    <<"n", ".", "t", hour, "z", ".", "s", "r", ".">> \o token \o <<".">> \o step
    \o <<".">> \o area \o <<".", "n", "c">>

\* files of one model type and hour with and without a member suffix, at two
\* steps and in two areas; one at another hour, one of another model type and
\* one without a step
VariantNames ==
    {VariantName("0", token, step, area) :
        token \in {<<"c">>, <<"c", "_", "3">>}, step \in {<<"f", "1">>, <<"f", "2">>},
        area \in {<<"u">>, <<"v">>}}
    \cup {VariantName("1", <<"c">>, <<"f", "1">>, <<"u">>),
          VariantName("0", <<"l">>, <<"f", "1">>, <<"u">>),
          VariantName("0", <<"c">>, <<"f">>, <<"u">>)}

IntValue(n) == [kind |-> "int", v |-> StrOfInt(n)]

\* configuration[file.name] = file, for a file the configuration does not hold
DoConfigurationInsertVariant ==
    /\ \E i \in Days : \E j \in Configurations(i) : \E name \in VariantNames :
         /\ Len(ConfigurationAt(i, j).files) < MaxSeriesFiles
         /\ ~DictHas(ConfigurationAt(i, j).files, name)
         /\ ConfigurationCall("Configuration.__setitem__", i, j, StrKey(name), FileOf(name),
                              ConfigurationSetItem(ConfigurationAt(i, j), StrKey(name),
                                                   FileOf(name)),
                              NoLs)
    /\ UNCHANGED <<callers, directory, selected, nomad>>

\* configuration.get_timeseries(model_type, reference), the arguments recorded
DoConfigurationGetTimeseriesFor ==
    /\ \E i \in Days : \E j \in Configurations(i) :
       \E model_type \in {<<"c">>, <<"l">>} : \E reference \in {0, 1} :
       \E ls \in FileListingsFor(ConfigurationAt(i, j)) :
         ConfigurationCall("Configuration.get_timeseries", i, j, StrKey(model_type),
                           IntValue(reference),
                           ConfigurationGetTimeseries(ConfigurationAt(i, j), model_type,
                                                      reference, ls),
                           ls)
    /\ UNCHANGED <<callers, directory, selected, nomad>>

NextVariants ==
    \/ DoConfigurationInsertVariant
    \/ DoConfigurationGetTimeseriesFor
    \/ DoConfigurationGetAllTimeseries
    \/ DoConfigurationAllFiles

SpecVariants == InitPartition /\ [][NextVariants]_vars

(***************************************************************************)
(* One caller that enumerates.  `for key, child in container` is           *)
(* container.__iter__() and then container.__next__() until                *)
(* StopIteration; a loop may be left early and another started, on the     *)
(* same container or on another.  The caller is callers[1]: seen holds     *)
(* the pairs its present loop got, keys the pairs the container held when  *)
(* the loop started, calls the number of loops it started and fetched,     *)
(* for each loop it started, where it stood when it did.  The caller       *)
(* inserts only between loops.                                             *)
(***************************************************************************)
MaxEnumerations == 3

\* dict.items()
Items(mapping) == [n \in 1..Len(mapping) |-> <<mapping[n].k, mapping[n].v>>]

EnumerationStarted(at, items) ==
    [callers EXCEPT ![1] =
        [@ EXCEPT !.pc = IF lastOp'.err = "" THEN "looping" ELSE "failed",
                  !.at = at, !.keys = items, !.seen = <<>>, !.calls = @ + 1,
                  !.fetched = Append(@, [pc |-> callers[1].pc,
                                         seen |-> Len(callers[1].seen)])]]

EnumerationAdvanced ==
    [callers EXCEPT ![1] =
        IF lastOp'.err = "" THEN [@ EXCEPT !.seen = Append(@, lastOp'.val)]
        ELSE IF lastOp'.err = "StopIteration" THEN [@ EXCEPT !.pc = "done"]
        ELSE [@ EXCEPT !.pc = "failed"]]

Filling ==
    /\ callers[1].pc # "looping"
    /\ \/ DoCatalogSetItem
       \/ DoDaySetItem
       \/ DoConfigurationSetItem

CatalogEnumerate ==
    /\ callers[1].calls < MaxEnumerations
    /\ CatalogCall("Catalog.__iter__", None, None, CatalogIter(catalog))
    /\ callers' = EnumerationStarted(<<>>, Items(catalog'.days))
    /\ UNCHANGED <<directory, selected, nomad>>

CatalogEnumerateNext ==
    /\ callers[1].pc = "looping"
    /\ Len(callers[1].at) = 0
    /\ CatalogCall("Catalog.__next__", None, None, CatalogNext(catalog))
    /\ callers' = EnumerationAdvanced
    /\ UNCHANGED <<directory, selected, nomad>>

DayEnumerate ==
    /\ callers[1].calls < MaxEnumerations
    /\ \E i \in Days :
         /\ Len(DayAt(i).configurations) > 0
         /\ DayCall("Day.__iter__", i, None, None, DayIter(DayAt(i), NoLs), NoLs)
         /\ callers' = EnumerationStarted(DayPath(i), Items(DayAt(i).configurations'))
    /\ UNCHANGED <<directory, selected, nomad>>

DayEnumerateNext ==
    /\ callers[1].pc = "looping"
    /\ Len(callers[1].at) = 1
    /\ DayCall("Day.__next__", DayIndex(callers[1].at), None, None,
               DayNext(DayAt(DayIndex(callers[1].at)), NoLs), NoLs)
    /\ callers' = EnumerationAdvanced
    /\ UNCHANGED <<directory, selected, nomad>>

ConfigurationEnumerate ==
    /\ callers[1].calls < MaxEnumerations
    /\ \E i \in Days : \E j \in Configurations(i) :
         /\ Len(ConfigurationAt(i, j).files) > 0
         /\ ConfigurationCall("Configuration.__iter__", i, j, None, None,
                              ConfigurationIter(ConfigurationAt(i, j), NoLs), NoLs)
         /\ callers' = EnumerationStarted(ConfigurationPath(i, j),
                                          Items(ConfigurationAt(i, j).files'))
    /\ UNCHANGED <<directory, selected, nomad>>

ConfigurationEnumerateNext ==
    /\ callers[1].pc = "looping"
    /\ Len(callers[1].at) = 2
    /\ ConfigurationCall("Configuration.__next__", DayIndex(callers[1].at),
                         ConfigurationIndex(callers[1].at), None, None,
                         ConfigurationNext(ConfigurationAt(DayIndex(callers[1].at),
                                                           ConfigurationIndex(callers[1].at)),
                                           NoLs),
                         NoLs)
    /\ callers' = EnumerationAdvanced
    /\ UNCHANGED <<directory, selected, nomad>>

EnumerationStep ==
    \/ CatalogEnumerateNext
    \/ DayEnumerateNext
    \/ ConfigurationEnumerateNext

NextEnumeration ==
    \/ Filling
    \/ CatalogEnumerate
    \/ CatalogEnumerateNext
    \/ DayEnumerate
    \/ DayEnumerateNext
    \/ ConfigurationEnumerate
    \/ ConfigurationEnumerateNext

SpecEnumeration == Init /\ [][NextEnumeration]_vars

\* the loop body returns and the loop calls __next__ again
SpecEnumerationFair == SpecEnumeration /\ WF_vars(EnumerationStep)

(***************************************************************************)
(* Ensemble members.  A day's directory lists one entry per member of a    *)
(* configuration, <type>_mem<n>.  The lazy Day reads such a listing        *)
(* through local.fetch_configurations; the eager Day is handed the         *)
(* Configurations that web.form_configuration makes of the same entries.   *)
(***************************************************************************)
Member(n) == ShortRange \o <<"_", "m", "e", "m", n>>

MemberNames == {ShortRange, Member("1"), Member("2")}

MemberListings ==
    {Ok(<<Entry(a, TRUE)>>) : a \in MemberNames}
    \cup UNION {{Ok(<<Entry(a, TRUE), Entry(b, TRUE)>>) : b \in MemberNames \ {a}} :
                a \in MemberNames}
    \cup {Ok(<<Entry(Member("1"), TRUE), Entry(NameC1, FALSE), Entry(Member("2"), TRUE)>>)}

DoDayLenListed ==
    /\ \E i \in Days : \E ls \in MemberListings :
         /\ Len(DayAt(i).configurations) = 0
         /\ DayCall("Day.__len__", i, None, None, DayLen(DayAt(i), ls), ls)
    /\ UNCHANGED <<callers, directory, selected, nomad>>

DoDayIterListed ==
    /\ \E i \in Days : \E ls \in MemberListings :
         /\ Len(DayAt(i).configurations) = 0
         /\ DayCall("Day.__iter__", i, None, None, DayIter(DayAt(i), ls), ls)
    /\ UNCHANGED <<callers, directory, selected, nomad>>

DoDayGetItemListed ==
    /\ \E i \in Days : \E name \in MemberNames : \E ls \in MemberListings :
         /\ Len(DayAt(i).configurations) = 0
         /\ DayCall("Day.__getitem__", i, StrKey(name), None,
                    DayGetItem(DayAt(i), StrKey(name), ls), ls)
    /\ UNCHANGED <<callers, directory, selected, nomad>>

\* day.add_configuration(web.form_configuration(day.address, entry))
DoDirectoryDayAddListed ==
    /\ \E i \in DirectoryDays : \E name \in MemberNames :
         DirectoryDayCall("directory.Day.add_configuration", i, StrKey(name),
                          WebFormConfiguration(directory.days[i].v.address, Link(name)),
                          DirectoryDayAddConfiguration(
                              directory.days[i].v,
                              WebFormConfiguration(directory.days[i].v.address, Link(name))))
    /\ UNCHANGED <<catalog, callers, selected, nomad>>

NextMembers ==
    \/ DoCatalogSetItem
    \/ DoDirectoryAddDay
    \/ DoDayLenListed
    \/ DoDayIterListed
    \/ DoDayGetItemListed
    \/ DoDirectoryDayAddListed

SpecMembers == Init /\ [][NextMembers]_vars

(***************************************************************************)
(* Properties of the lazy tree's calls                                     *)
(***************************************************************************)
CatalogReads == {"Catalog.__getitem__", "Catalog.__len__", "Catalog.__iter__", "Catalog.__next__"}

DayReads == {"Day.__getitem__", "Day.__len__", "Day.__iter__", "Day.__next__"}

ConfigurationReads ==
    {"Configuration.__getitem__", "Configuration.__len__", "Configuration.__iter__",
     "Configuration.__next__", "Configuration.all_files", "Configuration.get_timeseries",
     "Configuration.get_all_timeseries"}

Lookups == {"Catalog.__getitem__", "Day.__getitem__", "Configuration.__getitem__"}

Counts == {"Catalog.__len__", "Day.__len__", "Configuration.__len__"}

Enumerations ==
    {"Catalog.__iter__", "Catalog.__next__", "Day.__iter__", "Day.__next__",
     "Configuration.__iter__", "Configuration.__next__"}

Insertions == {"Catalog.__setitem__", "Day.__setitem__", "Configuration.__setitem__"}

\* whether the key, and the value, of a call are of the kinds its container takes
KeyFits(o) == IF Len(o.at) = 0 THEN IsDatetime(o.key) ELSE IsStr(o.key)

ValueFits(o) ==
    o.value.kind = (IF Len(o.at) = 0 THEN "Day"
                    ELSE IF Len(o.at) = 1 THEN "Configuration" ELSE "File")

\* the names of a listing that fetch_files passes to the extractor
ListedFiles(ls) ==
    LET IsNc(e) == ~e.isdir /\ EndsWith(e.name, <<".", "n", "c">>)
    IN  [n \in 1..Len(SelectSeq(ls.val, IsNc)) |-> SelectSeq(ls.val, IsNc)[n].name]

\* C1: over a sequence of reads on one Day or Configuration the backend
\* enumeration is called at most once, whatever child set it returned: a read
\* that follows a read which called the backend and returned calls it zero
\* more times.
C1_FetchedAtMostOnce ==
    [][(/\ lastOp.op \in DayReads \cup ConfigurationReads
        /\ lastOp.calls # {}
        /\ lastOp.err = ""
        /\ lastOp'.op \in DayReads \cup ConfigurationReads
        /\ lastOp'.at = lastOp.at)
       => lastOp'.calls = {}]_vars

C5_InsertionCountsAsLoaded ==
    [][/\ (lastOp'.op \in {"Day.__setitem__", "Configuration.__setitem__"}
           /\ lastOp'.err = "")
          => DictGet(MappingAt(catalog', lastOp'.at), lastOp'.key.v) = <<lastOp'.value>>
       /\ lastOp'.op # "Catalog.__setitem__" =>
            \A i \in Days :
                /\ Len(DayAt(i).configurations) > 0 => Len(DayAt(i).configurations') > 0
                /\ lastOp'.op # "Day.__setitem__" =>
                     \A j \in Configurations(i) :
                         Len(ConfigurationAt(i, j).files) > 0
                            => Len(ConfigurationAt(i, j).files') > 0
       /\ (lastOp'.op \in DayReads \cup ConfigurationReads /\ ~lastOp'.empty)
          => /\ lastOp'.calls = {}
             /\ MappingAt(catalog', lastOp'.at) = MappingAt(catalog, lastOp'.at)
             /\ lastOp'.op \in Counts => lastOp'.val = Len(MappingAt(catalog, lastOp'.at))
             /\ (lastOp'.op \in Lookups /\ IsStr(lastOp'.key)) =>
                  lastOp'.val = DictGet(MappingAt(catalog, lastOp'.at), lastOp'.key.v)
             /\ lastOp'.op = "Configuration.all_files" =>
                  lastOp'.val = DictValues(MappingAt(catalog, lastOp'.at))]_vars

\* a Day gets children by insertion only: its count answers 1 without the backend
C5_Witness ==
    /\ lastOp.op = "Day.__len__"
    /\ ~lastOp.empty
    /\ lastOp.calls = {}
    /\ lastOp.val = 1

\* C7: a keyed insertion on a Catalog, Day or Configuration fails exactly when
\* the key or the value is of the wrong kind; it then leaves the whole tree as
\* it was, and its error differs from the error of an insertion on the same
\* container that is wrong in another of the three ways.
C7_RejectedInsertion ==
    [][lastOp'.op \in Insertions =>
         /\ lastOp'.err = "" <=> (KeyFits(lastOp') /\ ValueFits(lastOp'))
         /\ lastOp'.err # "" =>
              /\ catalog' = catalog
              /\ lastOp.op = lastOp'.op /\ lastOp.at = lastOp'.at /\ lastOp.err # ""
                 /\ <<KeyFits(lastOp), ValueFits(lastOp)>>
                        # <<KeyFits(lastOp'), ValueFits(lastOp')>>
                 => lastOp.err # lastOp'.err]_vars

\* an insertion with a key and a value both of the wrong kind has failed
C7_Witness ==
    /\ lastOp.op \in Insertions
    /\ ~KeyFits(lastOp)
    /\ ~ValueFits(lastOp)
    /\ lastOp.err # ""

\* C8: a keyed lookup with a key of the container's kind raises nothing but
\* a failure of the backend enumeration it had to call; when it returns and
\* the key is not in the mapping, it returns the absence marker; and it adds
\* nothing to the mapping: without a backend call the mapping is as before,
\* and after one every key was listed by the backend.
C8_MissingKey ==
    [][(lastOp'.op \in Lookups /\ KeyFits(lastOp')) =>
         /\ lastOp'.calls = {} => lastOp'.err = ""
         /\ lastOp'.err = "" =>
              (lastOp'.val = <<>>
                 <=> ~DictHas(MappingAt(catalog', lastOp'.at), lastOp'.key.v))
         /\ lastOp'.calls = {} =>
              MappingAt(catalog', lastOp'.at) = MappingAt(catalog, lastOp'.at)
         /\ (lastOp'.calls # {} /\ lastOp'.err = "") =>
              /\ Len(lastOp'.at) = 1 => MappingAt(catalog', lastOp'.at) = <<>>
              /\ Len(lastOp'.at) = 2 =>
                   DictKeys(MappingAt(catalog', lastOp'.at)) = ListedFiles(lastOp'.ls)]_vars

\* a Day that holds a configuration is asked for another one
C8_Witness ==
    /\ lastOp.op = "Day.__getitem__"
    /\ lastOp.key = StrKey(LongRange)
    /\ ~lastOp.empty
    /\ lastOp.err = ""
    /\ lastOp.val = <<>>

\* C10: after a Configuration's files were fetched from a listing, every
\* listed .nc name that the attribute extractor parses is among the
\* Configuration's files, whatever other names the listing holds.
C10_UnparseableSkipped ==
    (/\ lastOp.op \in ConfigurationReads
     /\ lastOp.calls # {}
     /\ lastOp.ls.err = "")
    => \A n \in 1..Len(ListedFiles(lastOp.ls)) :
          CommonExtractFileAttributes(ListedFiles(lastOp.ls)[n]).err = ""
             => DictHas(MappingAt(catalog, lastOp.at), ListedFiles(lastOp.ls)[n])

\* C3: two enumerations of one container that are in progress at the same time
\* do not interfere: a caller whose loop over a container has finished, the
\* container still holding the keys it held when the loop started, got every
\* key exactly once and in the container's order.
C3_IndependentEnumerations ==
    \A c \in Callers :
        (/\ callers[c].pc = "done"
         /\ DictKeys(MappingAt(catalog, callers[c].at)) = callers[c].keys)
        => callers[c].seen = callers[c].keys

\* C4: when two callers read one unloaded container at the same time and the
\* container ends up populated, only one of them asked the backend, and the
\* container holds the children of the listing.
C4_OneLoader ==
    \A c, d \in Callers :
        (/\ c # d
         /\ callers[c].pc = "returned"
         /\ callers[d].pc = "returned"
         /\ callers[c].at = callers[d].at
         /\ callers[c].calls > 0
         /\ Len(MappingAt(catalog, callers[c].at)) > 0)
        => /\ callers[d].calls = 0
           /\ MappingAt(catalog, callers[c].at) = callers[c].fetched

\* the days of the catalog c that hold a loaded configuration of a type
Available(c, configuration_type) ==
    {i \in 1..Len(c.days) :
        /\ DictHas(c.days[i].v.configurations, configuration_type)
        /\ Len(DictGet(c.days[i].v.configurations, configuration_type)[1].files) > 0}

\* C9: a failing backend enumeration of one container is scoped to its subtree:
\* the whole-catalog gathering of series is not aborted by it while another
\* day holds loaded files, and the day and configuration mappings that were
\* loaded before the call are the same after it.
C9_FailureScoped ==
    [][(/\ lastOp'.op = "Catalog.get_all_timeseries"
        /\ Available(catalog, ShortRange) # {})
       => /\ lastOp'.err # "OSError"
          /\ \A i \in Available(catalog, ShortRange) :
                catalog'.days[i].v.configurations = catalog.days[i].v.configurations]_vars

\* the keyed insertions of the eager tree
EagerInsertions ==
    {"directory.Directory.__setitem__", "directory.Day.__setitem__",
     "directory.Configuration.__setitem__"}

\* what a keyed lookup of the call's key answers on the call's container
LookedUp(o) ==
    IF o.op \in EagerInsertions
    THEN IF Len(o.at) = 0 THEN DirectoryGetItem(directory, o.key)
         ELSE IF Len(o.at) = 1
         THEN DirectoryDayGetItem(DictGet(directory.days, o.at[1])[1], o.key)
         ELSE DirectoryConfigurationGetItem(
                  DictGet(DictGet(directory.days, o.at[1])[1].configurations, o.at[2])[1],
                  o.key)
    ELSE IF Len(o.at) = 0 THEN CatalogGetItem(catalog, o.key)
         ELSE IF Len(o.at) = 1
         THEN DayGetItem(DictGet(catalog.days, o.at[1])[1], o.key, NoLs)
         ELSE ConfigurationGetItem(
                  DictGet(DictGet(catalog.days, o.at[1])[1].configurations, o.at[2])[1],
                  o.key, NoLs)

\* C6: a keyed insertion with a key and a value of the right kinds, on the lazy
\* tree or on the eager one, never fails, and a keyed lookup of the key that
\* follows it returns the inserted value.
C6_RightKindsInserted ==
    (/\ lastOp.op \in Insertions \cup EagerInsertions
     /\ KeyFits(lastOp)
     /\ ValueFits(lastOp))
    => /\ lastOp.err = ""
       /\ LookedUp(lastOp).err = ""
       /\ LookedUp(lastOp).val = <<lastOp.value>>

\* the files of the configuration a call was made on
FilesAt(o) == DictValues(MappingAt(catalog, o.at))

\* the (model type, reference hour) pairs the files span
Pairs(files) == {<<files[i].model_type, files[i].reference>> : i \in 1..Len(files)}

RECURSIVE SeriesFileCount(_)
SeriesFileCount(timeseries) ==
    IF timeseries = <<>> THEN 0
    ELSE Len(Head(timeseries).files) + SeriesFileCount(Tail(timeseries))

\* C11: for a Configuration holding N files that span M (model type, reference
\* hour) pairs, get_all_timeseries returns M series, the file counts of the
\* series sum to N, every file of a series has the series' model type and
\* reference hour, and the files of each series are in ascending step order.
C11_Partitioned ==
    (/\ lastOp.op = "Configuration.get_all_timeseries"
     /\ ~lastOp.empty)
    => /\ lastOp.err = ""
       /\ Len(lastOp.val) = Cardinality(Pairs(FilesAt(lastOp)))
       /\ SeriesFileCount(lastOp.val) = Len(FilesAt(lastOp))
       /\ \A k \in 1..Len(lastOp.val) :
             /\ \A n \in 1..Len(lastOp.val[k].files) :
                   /\ lastOp.val[k].files[n].model_type = lastOp.val[k].model_type
                   /\ lastOp.val[k].files[n].reference = lastOp.val[k].reference
             /\ \A n \in 1..(Len(lastOp.val[k].files) - 1) :
                   lastOp.val[k].files[n].step <= lastOp.val[k].files[n + 1].step

\* the series of the days' configurations of a type whose model type is the
\* requested one, whatever the case of the letters
RECURSIVE NamedSeries(_, _, _)
NamedSeries(days, configuration_type, model_type) ==
    IF days = <<>> THEN <<>>
    ELSE (IF DictHas(Head(days).v.configurations, configuration_type)
          THEN OfModelType(
                   ConfigurationGetAllTimeseries(
                       DictGet(Head(days).v.configurations, configuration_type)[1],
                       NoLs).val,
                   model_type)
          ELSE <<>>)
         \o NamedSeries(Tail(days), configuration_type, model_type)

\* C12: Catalog.get_all_timeseries visits every Day; a Day without a
\* Configuration of the named type contributes no series and raises no error;
\* the result is the series of the named Configurations whose model type is
\* the requested one ignoring letter case.  Stated for the calls that every
\* Day answers without its backend.
C12_AbsentSkipped ==
    (/\ lastOp.op = "Catalog.get_all_timeseries"
     /\ lastOp.calls = {})
    => /\ lastOp.err = ""
       /\ lastOp.val = NamedSeries(catalog.days, lastOp.key.v, lastOp.value.v)

CountOps ==
    {"directory.Directory.get_file_count", "directory.Day.get_file_count",
     "directory.Configuration.get_file_count"}

\* the files reachable from the container at a path of the eager tree, each
\* as the positions of its day, its configuration and itself
Reachable(at) ==
    {p \in UNION {UNION {{<<i, j, k>> :
                             k \in 1..Len(directory.days[i].v.configurations[j].v.files)} :
                         j \in 1..Len(directory.days[i].v.configurations)} :
                  i \in 1..Len(directory.days)} :
        /\ Len(at) >= 1 => directory.days[p[1]].k = at[1]
        /\ Len(at) >= 2 => directory.days[p[1]].v.configurations[p[2]].k = at[2]}

Is(filter, value) == filter = <<>> \/ filter = <<value>>

\* whether the file at a position passes every filter that is set
Passes(p, f) ==
    LET day == directory.days[p[1]].v
        configuration == day.configurations[p[2]].v
        file == configuration.files[p[3]].v
    IN  /\ Is(f.date, day.date)
        /\ Is(f.configuration_type, configuration.type)
        /\ Is(f.name, file.name)
        /\ Is(f.reference, file.reference)
        /\ Is(f.model_type, file.model_type)
        /\ Is(f.step, file.step)
        /\ Is(f.area, file.area)
        /\ Is(f.member, file.member)

\* C13: get_file_count on a Directory, Day or Configuration returns the number
\* of reachable Files that pass every filter that is set, unset filters being
\* ignored: with no filter set it is the number of reachable Files, and with a
\* value no File has it is 0.
C13_FileCount ==
    lastOp.op \in CountOps
    => /\ lastOp.err = ""
       /\ lastOp.val = Cardinality({p \in Reachable(lastOp.at) : Passes(p, lastOp.key.v)})
       /\ lastOp.key.v = Unset => lastOp.val = Cardinality(Reachable(lastOp.at))
       /\ lastOp.key.v.area = <<<<"m", "a", "r", "s">>>> => lastOp.val = 0

\* a Directory of two files counted with two filters set, one file passing
C13_Witness ==
    /\ lastOp.op = "directory.Directory.get_file_count"
    /\ lastOp.key.v.reference = <<0>>
    /\ lastOp.key.v.step = <<2>>
    /\ Cardinality(Reachable(<<>>)) = 2
    /\ lastOp.val = 1

SelectFilesOps ==
    {"directory.Directory.select_files", "directory.Day.select_files",
     "directory.Configuration.select_files"}

\* the container of the source tree a selection was called on
Original == IF lastOp.at = <<>> THEN directory ELSE SourceAt(lastOp.at)

\* the files under an entry, shared objects followed into the source tree
RECURSIVE FileTotal(_)
FileTotal(entry) ==
    LET Total(node) ==
            IF node.kind = "File" THEN 1
            ELSE Sum([i \in 1..Len(Children(node)) |-> FileTotal(Children(node)[i].v)])
    IN  Total(Resolve(entry))

\* C14: select_files with a predicate that is always true returns a tree
\* with as many Files as the tree it was called on holds, whatever container
\* operations built that tree, keyed insertion included; with a predicate that
\* is always false it returns a tree without children.
C14_SelectAllOrNothing ==
    lastOp.op \in SelectFilesOps
    => /\ lastOp.err = ""
       /\ lastOp.key.v = <<"always">> => FileTotal(selected[1].tree) = FileTotal(Original)
       /\ lastOp.key.v = <<"never">> => Len(Children(selected[1].tree)) = 0

\* every file of the tree is stored under its own name
KeyedByName ==
    \A i \in 1..Len(directory.days) : \A j \in 1..Len(directory.days[i].v.configurations) :
    \A k \in 1..Len(directory.days[i].v.configurations[j].v.files) :
        directory.days[i].v.configurations[j].v.files[k].k
            = directory.days[i].v.configurations[j].v.files[k].v.name

DirectorySelectOps ==
    {"directory.Directory.select_days", "directory.Directory.select_files",
     "directory.Directory.select_configurations"}

\* the days of a returned Directory, the configurations of those days and
\* the files of those configurations, shared objects followed into the source
SelectedDayObjects(tree) == {Resolve(tree.days[i].v) : i \in 1..Len(tree.days)}

SelectedConfigurationObjects(tree) ==
    UNION {{Resolve(day.configurations[j].v) : j \in 1..Len(day.configurations)} :
              day \in SelectedDayObjects(tree)}

SelectedFileObjects(tree) ==
    UNION {{configuration.files[k].v : k \in 1..Len(configuration.files)} :
              configuration \in SelectedConfigurationObjects(tree)}

\* the children a selection chooses by its predicate
Chosen(op, tree) ==
    IF op = "directory.Directory.select_days" THEN SelectedDayObjects(tree)
    ELSE IF op = "directory.Directory.select_configurations"
    THEN SelectedConfigurationObjects(tree)
    ELSE SelectedFileObjects(tree)

NoEmptyChild(tree) ==
    /\ \A day \in SelectedDayObjects(tree) : Len(day.configurations) > 0
    /\ \A configuration \in SelectedConfigurationObjects(tree) : Len(configuration.files) > 0

\* C15: the tree a selection on a Directory returns, by a file, configuration
\* or day predicate, holds no Day without Configurations and no Configuration
\* without Files, and the children it chose are ones the predicate holds for.
C15_Pruned ==
    lastOp.op \in DirectorySelectOps
    => /\ lastOp.err = ""
       /\ NoEmptyChild(selected[1].tree)
       /\ \A x \in Chosen(lastOp.op, selected[1].tree) : Holds(lastOp.key.v[1], x)

\* C16: a selection does not change the source tree, and neither does any
\* later insertion, by an add method or by key, into a container of the tree
\* the selection returned.
C16_SourceKept == [][selected' # selected => directory' = directory]_vars

ExtractOps == {"common.extract_file_attributes", "web.extract_file_attributes"}

\* the first occurrence of old taken out of s
RECURSIVE RemovedOnce(_, _)
RemovedOnce(s, old) ==
    IF s = <<>> \/ old = <<>> THEN s
    ELSE IF StartsWith(s, old) THEN SubSeq(s, Len(old) + 1, Len(s))
    ELSE <<Head(s)>> \o RemovedOnce(Tail(s), old)

\* the member and the model type the rule gives for a token
TokenMember(token) ==
    IF DigitsOf(token) = <<>> THEN NoneInt ELSE IntOfDigits(DigitsOf(token))

TokenModelType(token) ==
    IF DigitsOf(token) = <<>> THEN token
    ELSE RemovedOnce(token, <<"_">> \o StrOfInt(TokenMember(token)))

\* a name whose token the extractor comes to: six segments or more, the hour
\* readable
Tokened(name) == Len(Split(name, ".")) >= 6 /\ IntParses(Inner(Split(name, ".")[2]))

\* C17: for the token in segment 3 of a file name, the member is the integer
\* of the token's digits in their order, absent without a digit; the model type
\* is the token with "_" and the member's digits taken out once when there is a
\* member, and the token itself otherwise.
C17_TokenRule ==
    (lastOp.op \in ExtractOps /\ Tokened(lastOp.key.v))
    => /\ lastOp.err = ""
       /\ lastOp.val[1].member = TokenMember(Split(lastOp.key.v, ".")[4])
       /\ lastOp.val[1].model_type = TokenModelType(Split(lastOp.key.v, ".")[4])

\* C18: for every file name with fewer than 6 dot-separated segments the
\* extractor fails and returns no attribute record.  The failure is the
\* missing index or the unreadable hour; in common.py it can also be the
\* NameError of its get_int_from_word.
C18_ShortNamesFail ==
    (lastOp.op \in ExtractOps /\ Len(Split(lastOp.key.v, ".")) < 6)
    => /\ lastOp.err \in {"IndexError", "ValueError", "NameError"}
       /\ lastOp.err = "NameError" => lastOp.op = "common.extract_file_attributes"
       /\ lastOp.val = <<>>

\* a name of five segments failed at the missing area
C18_Witness ==
    /\ lastOp.op = "web.extract_file_attributes"
    /\ Len(Split(lastOp.key.v, ".")) = 5
    /\ lastOp.err = "IndexError"
    /\ lastOp.val = <<>>

FormOps == {"local.form_configuration", "web.form_configuration"}

\* the configuration type the rule gives for an entry name: "_mem" and the
\* member's digits taken out, the slashes of a listing stripped
EntryType(name) ==
    Strip(IF DigitsOf(name) = <<>> THEN name
          ELSE Remove(name, <<"_", "m", "e", "m">> \o StrOfInt(TokenMember(name))),
          "/")

\* C20: the Configuration built from the name of an entry listed under a Day
\* has as member the integer of the digits of the name, absent without a
\* digit, and as configuration type the name without "_mem" and those digits.
C20_EntryRule ==
    lastOp.op \in FormOps
    => /\ lastOp.err = ""
       /\ lastOp.val[1].member = TokenMember(lastOp.key.v)
       /\ lastOp.val[1].type = EntryType(lastOp.key.v)

\* a construction the facade is to refuse: a backend name other than "local"
\* and "remote", or "local" without an address or with an empty one
Refusable(explorer, address) ==
    \/ explorer \notin {Local, Remote}
    \/ explorer = Local /\ address \in {<<>>, <<<<>>>>}

\* C19: the construction of the facade checks the backend: a name outside
\* "local" and "remote" is refused, and "local" is refused when the address is
\* absent or empty; a refused construction returns no facade and starts no
\* discovery.
C19_Validated ==
    (lastOp.op = "nomad.Nomad.__init__" /\ Refusable(lastOp.key.v, lastOp.value.v))
    => /\ lastOp.err # ""
       /\ lastOp.val = <<>>
       /\ lastOp.calls = {}

\* C21: in every state of the catalog, the Files one Configuration holds all
\* have the member of that Configuration.
C21_MemberShared ==
    \A i \in Days : \A j \in Configurations(i) :
    \A k \in 1..Len(ConfigurationAt(i, j).files) :
        ConfigurationAt(i, j).files[k].v.member = ConfigurationAt(i, j).member

AllTimeseriesReturned ==
    /\ lastOp.op = "Configuration.get_all_timeseries"
    /\ lastOp.err = ""

\* the files of a series' pair in the order of the configuration's mapping
Gathered(series) == Matching(FilesAt(lastOp), series.model_type, series.reference)

Asked(file) ==
    /\ file.model_type = lastOp.key.v
    /\ StrOfInt(file.reference) = lastOp.value.v

PlaceIn(files, file) == CHOOSE k \in 1..Len(files) : files[k] = file

TimeseriesForAnswered ==
    /\ lastOp.err = ""
    /\ \A k \in 1..Len(FilesAt(lastOp)) :
          Asked(FilesAt(lastOp)[k])
          => Cardinality({n \in 1..Len(lastOp.val) : lastOp.val[n] = FilesAt(lastOp)[k]}) = 1
    /\ \A n \in 1..Len(lastOp.val) :
          /\ Asked(lastOp.val[n])
          /\ \E k \in 1..Len(FilesAt(lastOp)) : FilesAt(lastOp)[k] = lastOp.val[n]
    /\ \A n \in 1..(Len(lastOp.val) - 1) :
          /\ lastOp.val[n].step <= lastOp.val[n + 1].step
          /\ lastOp.val[n].step = lastOp.val[n + 1].step
             => PlaceIn(FilesAt(lastOp), lastOp.val[n])
                < PlaceIn(FilesAt(lastOp), lastOp.val[n + 1])

\* C23: get_timeseries(model_type, reference) on a Configuration that holds
\* files returns exactly its files of that model type and reference hour, each
\* once, in ascending step order, files of equal step in the order of the
\* mapping, and leaves the mapping as it was.
C23_TimeseriesFor ==
    [][(/\ lastOp'.op = "Configuration.get_timeseries"
        /\ ~lastOp'.empty)
       => /\ TimeseriesForAnswered'
          /\ catalog' = catalog]_vars

\* the same for the calls in which no file asked for lacks a step
C23_TimeseriesForStepped ==
    [][(/\ lastOp'.op = "Configuration.get_timeseries"
        /\ ~lastOp'.empty
        /\ \A k \in 1..Len(FilesAt(lastOp)') :
              Asked(FilesAt(lastOp)[k])' => FilesAt(lastOp)'[k].step # NoneInt)
       => /\ TimeseriesForAnswered'
          /\ catalog' = catalog]_vars

C23_Stable ==
    /\ lastOp.op = "Configuration.get_timeseries"
    /\ lastOp.err = ""
    /\ Len(lastOp.val) = 3
    /\ lastOp.val[1].step = lastOp.val[2].step
    /\ lastOp.val[2].step < lastOp.val[3].step
    /\ PlaceIn(FilesAt(lastOp), lastOp.val[3]) = 1

\* C24: a loop of one caller over a loaded container gets the container's
\* (key, child) pairs in order, each once, and then ends; this holds as well
\* for a loop started after an earlier one ended and for one started while an
\* earlier one was under way, which starts again from the first pair.
C24_EnumeratedOnce ==
    /\ callers[1].pc # "failed"
    /\ callers[1].pc = "looping"
       => /\ callers[1].keys = Items(MappingAt(catalog, callers[1].at))
          /\ Len(callers[1].seen) <= Len(callers[1].keys)
          /\ callers[1].seen = SubSeq(callers[1].keys, 1, Len(callers[1].seen))
    /\ callers[1].pc = "done" => callers[1].seen = callers[1].keys

\* a loop that is under way ends
C24_Ends == (callers[1].pc = "looping") ~> (callers[1].pc = "done")

\* a loop over two pairs ended, started after a loop was left with one pair
\* taken and another had ended
C24_Witness ==
    /\ callers[1].pc = "done"
    /\ Len(callers[1].keys) = 2
    /\ callers[1].seen = callers[1].keys
    /\ \E n \in 1..Len(callers[1].fetched) :
          callers[1].fetched[n] = [pc |-> "looping", seen |-> 1]
    /\ \E n \in 1..Len(callers[1].fetched) : callers[1].fetched[n].pc = "done"

\* the names of the directories a listing holds
ListedDirectories(ls) ==
    LET IsDir(e) == e.isdir
    IN  [n \in 1..Len(SelectSeq(ls.val, IsDir)) |-> SelectSeq(ls.val, IsDir)[n].name]

Addresses25(mapping) == {mapping[n].v.address : n \in 1..Len(mapping)}

\* the listing holds several directories, all of them members of ShortRange
SiblingsListed(ls) ==
    /\ ls.err = ""
    /\ Len(ListedDirectories(ls)) >= 2
    /\ \A n \in 1..Len(ListedDirectories(ls)) :
          \E d \in {"1", "2"} : ListedDirectories(ls)[n] = Member(d)

\* C25: after a read of a Day fetched a listing of several directories that
\* differ only in their _mem<digits> suffix, the Day holds one Configuration
\* per listed directory: as many Configurations as directories, each
\* directory's address among them.
C25_SiblingsKept ==
    (/\ lastOp.op \in DayReads
     /\ lastOp.calls # {}
     /\ SiblingsListed(lastOp.ls))
    => /\ Len(MappingAt(catalog, lastOp.at)) = Len(ListedDirectories(lastOp.ls))
       /\ \A n \in 1..Len(ListedDirectories(lastOp.ls)) :
             PathJoin(DictGet(catalog.days, lastOp.at[1])[1].address,
                      ListedDirectories(lastOp.ls)[n])
                \in Addresses25(MappingAt(catalog, lastOp.at))

\* the same for the eager Day: adding the Configuration of an entry that the
\* Day does not hold yet gives the Day one Configuration more
C25_AddedSiblingKept ==
    [][(/\ lastOp'.op = "directory.Day.add_configuration"
        /\ lastOp'.value.address
              \notin Addresses25(DictGet(directory.days, lastOp'.at[1])[1].configurations))
       => Len(DictGet(directory'.days, lastOp'.at[1])[1].configurations)
          = Len(DictGet(directory.days, lastOp'.at[1])[1].configurations) + 1]_vars

\* what the backend enumeration answered the call, made on a Day or on a
\* Configuration of the tree c
BackendAnswer(c, o) ==
    IF Len(o.at) = 1 THEN LocalFetchConfigurations(DictGet(c.days, o.at[1])[1], o.ls)
    ELSE LocalFetchFiles(
             DictGet(DictGet(c.days, o.at[1])[1].configurations, o.at[2])[1], o.ls)

\* the call was a read that asked the backend, and the backend raised
FailedLoad(c, o) ==
    /\ o.op \in DayReads \cup ConfigurationReads
    /\ o.calls # {}
    /\ BackendAnswer(c, o).err # ""

\* a Configuration lookup with a key that is no string is refused before
\* anything is read
Refused(o) == o.op = "Configuration.__getitem__" /\ ~IsStr(o.key)

C26_WitnessPartial ==
    /\ lastOp.op \in ConfigurationReads
    /\ FailedLoad(catalog, lastOp)
    /\ lastOp.ls.err = ""
    /\ Len(ListedFiles(lastOp.ls)) >= 2
    /\ Len(MappingAt(catalog, lastOp.at)) = 0

====
